---- MODULE Spec2Model ----
(***************************************************************************)
(* A model of the GIMP Python-Fu plug-ins of this repository:              *)
(*   Draw-Flower-Of-Life-v1.01.py  (render_flower)                         *)
(*   yin-yang-1-05.py, yin-yang-1-02.py  (render_yin_yang)                 *)
(*                                                                         *)
(* Numbers.  Python floats are modelled in fixed point: a coordinate is an *)
(* integer number of micro-pixels (1 pixel = FP units), an angle an        *)
(* integer number of micro-radians, and math.sin / math.cos are the tables *)
(* MathSin / MathCos of the library's values rounded to six decimals at    *)
(* the angles the plug-in passes.  Radii are whole pixels, as in the code  *)
(* (circle_radius is an int(...)).                                         *)
(***************************************************************************)
EXTENDS Integers, Sequences, FiniteSets, TLC

\* one pixel, and one radian, in fixed-point units
FP == 1000000

\* ------------------------------------------------------------ constants
\* colors (Draw-Flower-Of-Life-v1.01.py, lines 91-92)
BLACK == <<0, 0, 0>>
WHITE == <<255, 255, 255>>

\* degrees, in micro-radians (lines 101-108)
DEGREE_30 == 523599
DEGREE_45 == 785398
DEGREE_60 == 1047200
DEGREE_90 == 1570800
DEGREE_120 == 2094400
DEGREE_180 == 3141590
DEGREE_240 == 4188790
DEGREE_300 == 5235990

\* flower type (line 115)
LINES == 0
PETALS == 1
CIRCLES == 2

RING_COLORS_COUNT == 7

\* mode (line 120)
RANDOM_COLORS == 2

\* image up-scale multiplier of the flower plug-in (line 123)
SCALE == 2

\* ------------------------------------------------------------ math library
\* The angles (micro-radians) at which the tables are defined: the DEGREE_*
\* constants and the sums of them the ring loops build.
Angles ==
    { -1047200, 0, 523599, 785398, 1047200, 1570800, 2094400, 3141590,
      3141600, 4188790, 4188800, 5235990, 5236000, 6283190, 6283200,
      7330400 }

\* math.sin(angle), times FP, rounded to the nearest unit
MathSin(a) ==
    CASE a = -1047200 -> -866027
      [] a = 0        -> 0
      [] a = 523599   -> 500000
      [] a = 785398   -> 707107
      [] a = 1047200  -> 866027
      [] a = 1570800  -> 1000000
      [] a = 2094400  -> 866023
      [] a = 3141590  -> 3
      [] a = 3141600  -> -7
      [] a = 4188790  -> -866025
      [] a = 4188800  -> -866030
      [] a = 5235990  -> -866024
      [] a = 5236000  -> -866019
      [] a = 6283190  -> 5
      [] a = 6283200  -> 15
      [] a = 7330400  -> 866034

\* math.cos(angle), times FP, rounded to the nearest unit
MathCos(a) ==
    CASE a = -1047200 -> 499998
      [] a = 0        -> 1000000
      [] a = 523599   -> 866025
      [] a = 785398   -> 707107
      [] a = 1047200  -> 499998
      [] a = 1570800  -> -4
      [] a = 2094400  -> -500004
      [] a = 3141590  -> -1000000
      [] a = 3141600  -> -1000000
      [] a = 4188790  -> -500000
      [] a = 4188800  -> -499992
      [] a = 5235990  -> 500002
      [] a = 5236000  -> 500011
      [] a = 6283190  -> 1000000
      [] a = 6283200  -> 1000000
      [] a = 7330400  -> 499985

\* ------------------------------------------------------------ get_point_on_circle
\* mutants of get_point_on_circle
get_point_on_circle_swapped(focus_point, angle, radius) ==
    << (MathCos(angle) * radius) + focus_point[1],
       (MathSin(angle) * (-radius)) + focus_point[2] >>

get_point_on_circle_squashed(focus_point, angle, radius) ==
    << (MathSin(angle) * radius) + focus_point[1],
       ((MathCos(angle) * (-radius)) \div 2) + focus_point[2] >>

\* x = (math.sin(angle) * radius) + focus_point[0]
\* y = (math.cos(angle) * -radius) + focus_point[1]
\* focus_point in micro-pixels, radius in pixels, the result in micro-pixels
get_point_on_circle(focus_point, angle, radius) ==
    << (MathSin(angle) * radius) + focus_point[1],
       (MathCos(angle) * (-radius)) + focus_point[2] >>

\* ------------------------------------------------------------ wide integers
\* Squares of micro-pixel distances do not fit the checker's integers; they
\* are held as five limbs in base LIMB, least significant first.
LIMB == 100 * 100

Abs(n) == IF n < 0 THEN -n ELSE n

\* the three limbs of a natural number below LIMB^3
Limbs(n) == << n % LIMB, (n \div LIMB) % LIMB, n \div (LIMB * LIMB) >>

\* the unnormalised square of a three-limb number
SquareLimbs(u) ==
    << u[1] * u[1],
       2 * u[1] * u[2],
       (2 * u[1] * u[3]) + (u[2] * u[2]),
       2 * u[2] * u[3],
       u[3] * u[3] >>

AddLimbs(u, v) == [k \in 1..5 |-> u[k] + v[k]]
SubLimbs(u, v) == [k \in 1..5 |-> u[k] - v[k]]

\* carries propagated: limbs 1..4 in 0..LIMB-1, the sign in limb 5
RECURSIVE Carry(_, _, _)
Carry(u, k, c) ==
    IF k = 5 THEN << u[5] + c >>
    ELSE << (u[k] + c) % LIMB >> \o Carry(u, k + 1, (u[k] + c) \div LIMB)

Normal(u) == Carry(u, 1, 0)

IsZero(u) == Normal(u) = << 0, 0, 0, 0, 0 >>
IsNegative(u) == Normal(u)[5] < 0

\* |dx, dy|^2, for micro-pixel offsets dx and dy
SquaredLength(dx, dy) ==
    AddLimbs(SquareLimbs(Limbs(Abs(dx))), SquareLimbs(Limbs(Abs(dy))))

\* (radius * FP)^2, for a radius in pixels
SquaredRadius(radius) == SquareLimbs(Limbs(radius * FP))

\* |u - v| <= t, for wide numbers u, v and t
WithinLimbs(u, v, t) ==
    /\ ~IsNegative(AddLimbs(t, SubLimbs(u, v)))
    /\ ~IsNegative(SubLimbs(t, SubLimbs(u, v)))

\* ------------------------------------------------------------ state
VARIABLES
    \* a single evaluation of get_point_on_circle
    gp_focus, gp_angle, gp_radius, gp_point, gp_called,
    \* which plug-in the host has invoked ("flower", "none")
    plugin,
    \* the position of the running render call, and how many calls started
    pc, calls,
    \* the host commands the last step issued, the number issued in this
    \* call, and the host's own state (context foreground, undo group)
    issued, ncmds, host,
    \* render_flower's arguments
    args,
    \* the flower plug-in's module-level variables
    frame_width, flower_radius, flower_type, line_width, frame_color,
    color_mode, ring_colors, image_size, image_center, image_focus,
    circle_radius, circle_diameter, ring_center, extra_ring,
    \* render_flower's local scale_size
    scale_size,
    \* the locals of the drawing functions: which pass (draw_colored_flower
    \* or draw_black_and_white) and ring is being drawn, the ring function's
    \* argument color and its loop variables
    pass, ring, color, li, lj, lk, lg, lx, ly, angle1, angle2,
    \* history: the colours each ring was filled with in the coloured
    \* pass and the order the rings were first drawn in; the entries of
    \* ring_center / extra_ring written in this call, and whether an entry
    \* was read that this call had not written; the circles drawn, each
    \* with its pass, its ring function and its centre, and the reads of
    \* extra_ring in the loop groups of draw_6th_ring, each with the k and
    \* i of the loop headers and the index read
    ring_fills, ring_order, rc_written, er_written, stale_read,
    circles, er_read,
    \* a polar derivation under study: its mode and the colours it went
    \* through (the colour given, then each result)
    polar_mode, polar_colors,
    \* the yin-yang plug-in: which version of the script runs, the
    \* attributes of its class yy (YY in 1.02), render_yin_yang's
    \* arguments and its locals
    version, yy, yy_args, flow_color_2, gradient_1, gradient_2, timer,
    side, frame, angle, rotation

pointVars == << gp_focus, gp_angle, gp_radius, gp_point, gp_called >>

hostVars == << issued, ncmds, host >>

flowerGlobals ==
    << frame_width, flower_radius, flower_type, line_width, frame_color,
       color_mode, ring_colors, image_size, image_center, image_focus,
       circle_radius, circle_diameter, scale_size >>

focusArrays == << ring_center, extra_ring >>

flowerLocals ==
    << pass, ring, color, li, lj, lk, lg, lx, ly, angle1, angle2 >>

flowerHistory ==
    << ring_fills, ring_order, rc_written, er_written, stale_read,
       circles, er_read >>

flowerVars ==
    << args, flowerGlobals, focusArrays, flowerLocals, flowerHistory >>

polarVars == << polar_mode, polar_colors >>

yyLocals == << flow_color_2, gradient_1, gradient_2, timer, side, frame, angle,
               rotation >>

yyVars == << version, yy, yy_args, yyLocals >>

\* what the flower plug-in has no access to
notFlower == << pointVars, polarVars, yyVars >>

vars == << pointVars, polarVars, plugin, pc, calls, hostVars, flowerVars,
           yyVars >>

\* ------------------------------------------------------------ the passes
\* the tuples of ring functions draw_colored_flower (lines 397-404) and
\* draw_black_and_white (lines 355-362) go through: n stands for the
\* function that draws the n-th ring
colored_ring_functions == << 1, 2, 3, 4, 5, 6 >>
bw_ring_functions_swapped == << 1, 2, 4, 3, 5, 6 >>
bw_ring_functions == << 1, 2, 3, 4, 5, 6 >>

\* the ring function running (0: draw_center_circle)
RingFunction ==
    IF ring = 0 THEN 0
    ELSE IF pass = "color" THEN colored_ring_functions[ring]
         ELSE bw_ring_functions[ring]

\* ------------------------------------------------------------ the host
\* A host (PDB) command: the procedure, the name it is given (a layer, a
\* channel operation) and its numeric arguments.
Cmd(op, name, a) == [op |-> op, name |-> name, a |-> a]

\* the commands that change the image of the call
ImageChanging ==
    { "image.add_layer", "gimp_drawable_fill", "gimp_image_select_ellipse",
      "gimp_image_select_rectangle", "gimp_image_select_color",
      "gimp_edit_bucket_fill", "gimp_drawable_edit_gradient_fill",
      "gimp_selection_none", "gimp_image_merge_visible_layers",
      "gimp_image_merge_down", "gimp_item_set_visible", "layer.name",
      "gimp_layer_add_mask", "gimp_image_remove_layer",
      "plug_in_colortoalpha", "gimp_drawable_invert",
      "gimp_item_transform_flip_simple", "gimp_item_transform_rotate",
      "gimp_image_scale_full", "gimp_image_crop", "layer.merge_shadow" }

\* The host before a call.  Besides the context and the undo group it
\* keeps the number of layers added to the image and of rotations done, the
\* gradients created and not yet deleted, the context's gradient ("" is
\* the one the host had before the call), how many gradients were created
\* and deleted, how many deletions and gradient fills met a gradient that
\* is not there, the messages shown and the message handler (the one a
\* plug-in finds is called "current_handler"), the commands that built
\* the selection since it was last empty, and for each layer bucket-filled
\* the channel operations that had built the selection it was filled
\* through.
Selecting ==
    { "gimp_image_select_ellipse", "gimp_image_select_rectangle",
      "gimp_image_select_color" }

HostIdle ==
    [ foreground |-> << 0, 0, 0 >>, undo_open |-> FALSE, undo_starts |-> 0,
      undo_ends |-> 0, unguarded |-> 0, changes |-> 0, failures |-> 0,
      layers |-> 0, rotations |-> 0, gradients |-> { }, gradient |-> "",
      gradient_news |-> 0, gradient_deletes |-> 0, absent_deletes |-> 0,
      absent_fills |-> 0, messages |-> << >>, handler |-> "current_handler",
      selection |-> << >>, fill_shapes |-> { } ]

\* the host's state after one command
HostAfter(h, c) ==
    CASE c.op = "gimp_context_set_foreground" ->
            [h EXCEPT !.foreground = c.a]
      [] c.op = "gimp_image_undo_group_start" ->
            [h EXCEPT !.undo_open = TRUE, !.undo_starts = @ + 1]
      [] c.op = "gimp_image_undo_group_end" ->
            [h EXCEPT !.undo_open = FALSE, !.undo_ends = @ + 1]
      [] c.op \in ImageChanging ->
            [h EXCEPT !.changes = @ + 1,
                      !.unguarded = IF h.undo_open THEN @ ELSE @ + 1,
                      !.layers = IF c.op = "image.add_layer" THEN @ + 1 ELSE @,
                      !.rotations = IF c.op = "gimp_item_transform_rotate"
                                    THEN @ + 1 ELSE @,
                      !.absent_fills =
                          IF c.op = "gimp_drawable_edit_gradient_fill"
                                /\ h.gradient \notin h.gradients
                          THEN @ + 1 ELSE @,
                      !.selection =
                          IF c.op = "gimp_selection_none" THEN << >>
                          ELSE IF c.op \notin Selecting THEN @
                          ELSE IF c.name = "CHANNEL_OP_REPLACE" THEN << c >>
                          ELSE Append(@, c),
                      !.fill_shapes =
                          IF c.op = "gimp_edit_bucket_fill"
                          THEN @ \cup
                               { << c.name,
                                    [n \in 1..Len(h.selection) |->
                                        h.selection[n].name] >> }
                          ELSE @]
      [] c.op = "gimp_gradient_new" ->
            [h EXCEPT !.gradients = @ \cup { c.name },
                      !.gradient_news = @ + 1]
      [] c.op = "gimp_gradient_delete" ->
            [h EXCEPT !.gradients = @ \ { c.name },
                      !.gradient_deletes = @ + 1,
                      !.absent_deletes = IF c.name \in h.gradients THEN @
                                         ELSE @ + 1]
      [] c.op = "gimp_context_set_gradient" ->
            [h EXCEPT !.gradient = c.name]
      [] c.op = "gimp.message" ->
            [h EXCEPT !.messages = Append(@, c.a)]
      [] c.op = "gimp_message_set_handler" ->
            [h EXCEPT !.handler = c.name]
      [] OTHER -> h

RECURSIVE HostAfterAll(_, _)
HostAfterAll(h, cmds) ==
    IF cmds = << >> THEN h
    ELSE HostAfterAll(HostAfter(h, Head(cmds)), Tail(cmds))

\* the colours of the bucket fills of layer "Circle" among cmds, given the
\* foreground the host starts with
RECURSIVE CircleFills(_, _)
CircleFills(fg, cmds) ==
    IF cmds = << >> THEN { }
    ELSE LET c == Head(cmds)
         IN  IF c.op = "gimp_context_set_foreground"
             THEN CircleFills(c.a, Tail(cmds))
             ELSE IF c.op = "gimp_edit_bucket_fill" /\ c.name = "Circle"
                  THEN { fg } \cup CircleFills(fg, Tail(cmds))
                  ELSE CircleFills(fg, Tail(cmds))

\* the centres of the circles filled on layer "Circle" among cmds: the
\* centre of the ellipse last added to the selection before the fill
RECURSIVE CircleCentres(_, _)
CircleCentres(sel, cmds) ==
    IF cmds = << >> THEN << >>
    ELSE LET c == Head(cmds)
         IN  IF c.op = "gimp_image_select_ellipse"
                   /\ c.name = "CHANNEL_OP_ADD"
             THEN CircleCentres(<< c.a[1] + (c.a[3] \div 2),
                                   c.a[2] + (c.a[4] \div 2) >>, Tail(cmds))
             ELSE IF c.op = "gimp_edit_bucket_fill" /\ c.name = "Circle"
                  THEN << sel >> \o CircleCentres(sel, Tail(cmds))
                  ELSE CircleCentres(sel, Tail(cmds))

\* the circles a step of the flower has drawn, in the order drawn
NoteCircles(done) ==
    IF plugin = "flower"
    THEN LET cc == CircleCentres(<< >>, done)
         IN  circles' = circles
                 \o [n \in 1..Len(cc) |->
                        [pass |-> pass, ring |-> RingFunction,
                         x |-> cc[n][1], y |-> cc[n][2]]]
    ELSE UNCHANGED circles

\* the history of circle fills after the commands done
NoteFills(done) ==
    /\ NoteCircles(done)
    /\ LET cs == CircleFills(host.foreground, done)
       IN  IF plugin = "flower" /\ pass = "color" /\ cs # { }
           THEN /\ ring_fills' =
                       [ring_fills EXCEPT ![RingFunction] = @ \cup cs]
                /\ ring_order' =
                       IF ring_order # << >>
                             /\ ring_order[Len(ring_order)] = RingFunction
                       THEN ring_order
                       ELSE Append(ring_order, RingFunction)
           ELSE UNCHANGED << ring_fills, ring_order >>

\* every command of cmds succeeds, and the call goes on at next
Succeed(cmds, next) ==
    /\ pc' = next
    /\ issued' = cmds
    /\ ncmds' = ncmds + Len(cmds)
    /\ host' = HostAfterAll(host, cmds)
    /\ NoteFills(cmds)

\* mutant of Fail: the failure of the first command is swallowed and the
\* call goes on where it was
Fail_swallowed(cmds) ==
    /\ cmds # << >>
    /\ pc' = pc
    /\ issued' = << cmds[1] >>
    /\ ncmds' = ncmds + 1
    /\ host' = [host EXCEPT !.failures = @ + 1]
    /\ NoteFills(<< >>)

\* the k-th command of cmds fails: the ones before it were done, and the
\* exception ends the call (no function of the plug-in catches it)
Fail(cmds) ==
    \E k \in 1..Len(cmds) :
        /\ pc' = "failed"
        /\ issued' = SubSeq(cmds, 1, k)
        /\ ncmds' = ncmds + k
        /\ host' = [HostAfterAll(host, SubSeq(cmds, 1, k - 1))
                        EXCEPT !.failures = @ + 1]
        /\ NoteFills(SubSeq(cmds, 1, k - 1))

\* ------------------------------------------------------------ flower: helpers
\* layer names (lines 95-98)
BASE == "Base"
MASK == "Mask"
COLOR_LAYER == "Color-Layer"
GRADIENT == "Gradient"

\* pixels to micro-pixels
Px(n) == n * FP
PxPoint(p) == << p[1] * FP, p[2] * FP >>

\* an entry of ring_center / extra_ring that holds no point yet (the
\* lists are built as [0] * 6 and [0] * 12)
NoPoint == << >>

SelectEllipse(operation, x, y, w, h) ==
    Cmd("gimp_image_select_ellipse", operation, << x, y, w, h >>)

\* make_new_layer(layer_name, normal, offset)
make_new_layer(layer_name, normal, offset) ==
    << Cmd("gimp_layer_new", layer_name, << IF normal THEN 1 ELSE 0 >>),
       Cmd("image.add_layer", layer_name, << 0 - (IF offset THEN 1 ELSE 0) >>) >>

\* fill_circle(layer, color)
fill_circle(layer, c) ==
    << Cmd("gimp_context_set_foreground", "", c),
       Cmd("gimp_edit_bucket_fill", layer, << >>) >>

\* fill_layer(layer, color)
fill_layer(layer, c) ==
    << Cmd("gimp_context_set_foreground", "", c),
       Cmd("gimp_drawable_fill", layer, << >>) >>

\* draw_circle_selection(x, y)
draw_circle_selection(x, y) ==
    << SelectEllipse("CHANNEL_OP_ADD", x, y,
                     Px(circle_diameter), Px(circle_diameter)) >>

\* mutant of draw_flower_circle: the selection is not released at the end
draw_flower_circle_unreleased(x, y, c) ==
    LET x0 == x - Px(circle_radius)
        y0 == y - Px(circle_radius)
    IN  make_new_layer("Circle", FALSE, FALSE)
        \o draw_circle_selection(x0, y0)
        \o fill_circle("Circle", c)

\* draw_flower_circle(x, y, color): x, y in micro-pixels
draw_flower_circle(x, y, c) ==
    LET x0 == x - Px(circle_radius)
        y0 == y - Px(circle_radius)
    IN  IF flower_type = LINES
        THEN LET x1 == x0 - Px(line_width \div 2)
                 y1 == y0 - Px(line_width \div 2)
                 dim1 == circle_diameter + line_width
                 dim2 == circle_diameter - line_width
             IN  make_new_layer("Circle", TRUE, FALSE)
                 \o << SelectEllipse("CHANNEL_OP_ADD", x1, y1,
                                     Px(dim1), Px(dim1)),
                       SelectEllipse("CHANNEL_OP_SUBTRACT",
                                     x1 + Px(line_width), y1 + Px(line_width),
                                     Px(dim2), Px(dim2)) >>
                 \o fill_circle("Circle", c)
                 \o << Cmd("gimp_selection_none", "", << >>) >>
        ELSE make_new_layer("Circle", FALSE, FALSE)
             \o draw_circle_selection(x0, y0)
             \o fill_circle("Circle", c)
             \o << Cmd("gimp_selection_none", "", << >>) >>

\* draw_frame(color)
draw_frame(c) ==
    IF frame_width # 0
    THEN LET lines == flower_type = LINES
             flower_dim == (flower_radius * 2)
                           + (IF lines THEN line_width ELSE 0)
             frame_dim == (flower_radius * 2) + (frame_width * 2)
                          + (IF lines THEN line_width ELSE 0)
             x1 == (image_center - flower_radius - frame_width)
                   - (IF lines THEN line_width \div 2 ELSE 0)
             x2 == (image_center - flower_radius)
                   - (IF lines THEN line_width \div 2 ELSE 0)
         IN  << SelectEllipse("CHANNEL_OP_ADD", Px(x1), Px(x1),
                              Px(frame_dim), Px(frame_dim)),
                SelectEllipse("CHANNEL_OP_SUBTRACT", Px(x2), Px(x2),
                              Px(flower_dim), Px(flower_dim)) >>
             \o make_new_layer("Frame", TRUE, FALSE)
             \o fill_circle("Frame", c)
             \o << Cmd("gimp_image_merge_down", "Frame", << >>),
                   Cmd("gimp_selection_none", "", << >>) >>
    ELSE << >>

\* draw_gradient()
draw_gradient ==
    make_new_layer(GRADIENT, FALSE, FALSE)
    \o << Cmd("gimp_gradient_new", "flower", << >>),
          Cmd("gimp_gradient_segment_set_right_color", "flower", BLACK),
          Cmd("gimp_gradient_segment_set_left_color", "flower", WHITE),
          Cmd("gimp_context_set_gradient", "flower", << >>),
          Cmd("gimp_drawable_edit_gradient_fill", GRADIENT,
              << Px(image_center), Px(image_center),
                 Px(flower_radius * 2), Px(flower_radius * 2) >>),
          Cmd("gimp_gradient_delete", "flower", << >>) >>

\* mutant of info_msg: the handler found is not set again
info_msg_unrestored(colors) ==
    << Cmd("gimp_message_get_handler", "", << >>),
       Cmd("gimp_message_set_handler", "ERROR_CONSOLE", << >>),
       Cmd("gimp.message", "The colors used in the flower:", colors) >>

\* info_msg(msg): the message lists the colours given
info_msg(colors) ==
    << Cmd("gimp_message_get_handler", "", << >>),
       Cmd("gimp_message_set_handler", "ERROR_CONSOLE", << >>),
       Cmd("gimp.message", "The colors used in the flower:", colors),
       Cmd("gimp_message_set_handler", "current_handler", << >>) >>

\* the seeds of the random generator that are tried
MaxSeed == 3
RandomSeeds == 0..MaxSeed

\* random.randint(0, 255): the n-th draw of the generator seeded with seed
RandInt(seed, n) == (255 + (seed * ((n * n) + 1) * 37)) % 256

\* the average colour of lines 695-705: int(sum / RING_COLORS_COUNT)
average_color_rounded(colors) ==
    LET RECURSIVE Sum(_, _)
        Sum(i, j) == IF i = 0 THEN 0 ELSE colors[i][j] + Sum(i - 1, j)
    IN  << (Sum(RING_COLORS_COUNT, 1) + 6) \div RING_COLORS_COUNT,
           (Sum(RING_COLORS_COUNT, 2) + 6) \div RING_COLORS_COUNT,
           (Sum(RING_COLORS_COUNT, 3) + 6) \div RING_COLORS_COUNT >>

average_color(colors) ==
    LET RECURSIVE Sum(_, _)
        Sum(i, j) == IF i = 0 THEN 0 ELSE colors[i][j] + Sum(i - 1, j)
    IN  << Sum(RING_COLORS_COUNT, 1) \div RING_COLORS_COUNT,
           Sum(RING_COLORS_COUNT, 2) \div RING_COLORS_COUNT,
           Sum(RING_COLORS_COUNT, 3) \div RING_COLORS_COUNT >>

\* the colour draw_colored_flower gives the x-th drawing (0 the centre)
colored_ring_color_shifted(x) == ring_colors[IF x = 0 THEN 1 ELSE x]

colored_ring_color(x) == ring_colors[x + 1]

\* the colour argument of the drawing function at position x of the pass
\* (PassColor_preset is a mutant: the black and white pass draws with the
\* ring colours too)
PassColor_preset(x) == colored_ring_color(x)
PassColor(x) == IF pass = "color" THEN colored_ring_color(x) ELSE WHITE

\* ------------------------------------------------------------ flower: render_flower
\* The host calls render_flower with arguments a.  Lines 646-656.
render_flower_call(a) ==
    /\ args' = a
    /\ frame_width' = a.frame_w * SCALE
    /\ flower_radius' = a.symbol_radius * SCALE
    /\ flower_type' = a.flower_part
    /\ line_width' = a.line_w * SCALE
    /\ frame_color' = a.frame_col
    /\ color_mode' = a.mode
    /\ ring_colors' = a.colors
    /\ rc_written' = { }
    /\ er_written' = { }
    /\ stale_read' = FALSE
    /\ ring_fills' = [r \in 0..6 |-> { }]
    /\ ring_order' = << >>
    /\ circles' = << >>
    /\ er_read' = << >>
    /\ calls' = calls + 1
    /\ plugin' = "flower"
    /\ LET cmds == << Cmd("gimp_context_push", "", << >>) >>
       IN  /\ issued' = cmds
           /\ \/ /\ pc' = "setup"
                 /\ ncmds' = 1
                 /\ host' = HostIdle
              \/ /\ pc' = "failed"
                 /\ ncmds' = 1
                 /\ host' = [HostIdle EXCEPT !.failures = 1]
    /\ pass' = "none" /\ ring' = 0 /\ color' = BLACK
    /\ li' = 0 /\ lj' = 0 /\ lk' = 0 /\ lg' = 0
    /\ lx' = 0 /\ ly' = 0 /\ angle1' = 0 /\ angle2' = 0
    /\ UNCHANGED << image_size, image_center, image_focus, circle_radius,
                    circle_diameter, scale_size, focusArrays >>
    /\ UNCHANGED notFlower

\* Lines 658-679: the measurements, the new image, the undo group.
render_flower_setup ==
    /\ plugin = "flower" /\ pc = "setup"
    /\ LET size == ((args.symbol_radius * 2) + (args.frame_w * 2)) + 2
                   + (IF flower_type = LINES THEN line_width ELSE 0)
           radius == (args.symbol_radius * SCALE) \div 3
       IN  /\ scale_size' = size
           /\ image_size' = size * SCALE
           /\ image_center' = (size * SCALE) \div 2
           /\ circle_radius' = radius
           /\ circle_diameter' = radius * 2
           /\ image_focus' = << (size * SCALE) \div 2, (size * SCALE) \div 2 >>
    /\ LET cmds == << Cmd("gimp_context_set_antialias", "", << 0 >>),
                      Cmd("gimp_context_set_feather", "", << 0 >>),
                      Cmd("gimp.Image", "", << image_size', image_size' >>),
                      Cmd("gimp_image_undo_group_start", "", << >>),
                      Cmd("gimp_display_new", "", << >>) >>
       IN  \/ Succeed(cmds, IF args.mode # 0 THEN "colorbase" ELSE "bwbase")
           \/ Fail(cmds)
    /\ UNCHANGED << notFlower, args, plugin, calls, frame_width, flower_radius,
                    flower_type, line_width, frame_color, color_mode,
                    ring_colors, focusArrays, flowerLocals,
                    rc_written, er_written, er_read, stale_read >>

\* the drawing of a pass starts at its centre circle
StartPass(p) ==
    /\ pass' = p
    /\ ring' = 0
    /\ UNCHANGED << color, li, lj, lk, lg, lx, ly, angle1, angle2 >>

\* Lines 681-686: the layer for the color circles.
render_flower_color_layer ==
    /\ plugin = "flower" /\ pc = "colorbase"
    /\ LET cmds == make_new_layer(BASE, TRUE, FALSE)
                   \o (IF flower_type # LINES THEN fill_layer(BASE, WHITE)
                       ELSE << >>)
       IN  \/ /\ Succeed(cmds, IF args.mode = RANDOM_COLORS THEN "random"
                               ELSE "center")
              /\ IF args.mode = RANDOM_COLORS THEN UNCHANGED flowerLocals
                 ELSE StartPass("color")
           \/ /\ Fail(cmds)
              /\ UNCHANGED flowerLocals
    /\ UNCHANGED << notFlower, args, plugin, calls, flowerGlobals, focusArrays,
                    rc_written, er_written, er_read, stale_read >>

\* Lines 688-705: the random colours and their average, the frame colour.
render_flower_random_colors ==
    /\ plugin = "flower" /\ pc = "random"
    /\ \E seed \in RandomSeeds :
          LET colors == [i \in 1..RING_COLORS_COUNT |->
                            << RandInt(seed, 3 * (i - 1)),
                               RandInt(seed, (3 * (i - 1)) + 1),
                               RandInt(seed, (3 * (i - 1)) + 2) >>]
          IN  /\ ring_colors' = colors
              /\ frame_color' = average_color(colors)
    /\ pc' = "center"
    /\ issued' = << >>
    /\ StartPass("color")
    /\ UNCHANGED << notFlower, args, plugin, calls, ncmds, host, frame_width,
                    flower_radius, flower_type, line_width, color_mode,
                    image_size, image_center, image_focus, circle_radius,
                    circle_diameter, scale_size, focusArrays, flowerHistory >>

\* what the drawing steps below leave alone
DrawingFrame ==
    UNCHANGED << notFlower, args, plugin, calls, flowerGlobals >>

\* draw_center_circle(color), lines 369-377
draw_center_circle ==
    /\ plugin = "flower" /\ pc = "center"
    /\ LET cmds == draw_flower_circle(Px(image_center), Px(image_center),
                                      PassColor(0))
       IN  \/ /\ Succeed(cmds, "enter")
              /\ ring' = 1
           \/ /\ Fail(cmds)
              /\ UNCHANGED ring
    /\ UNCHANGED << pass, color, li, lj, lk, lg, lx, ly, angle1, angle2 >>
    /\ UNCHANGED << focusArrays, rc_written, er_written, er_read, stale_read >>
    /\ DrawingFrame

\* The pass calls its next ring function f(color): the function's first
\* lines, up to its loop.
enter_ring_function ==
    /\ plugin = "flower" /\ pc = "enter"
    /\ color' = PassColor(ring)
    /\ li' = 0
    /\ CASE RingFunction = 1 ->
              /\ lx' = Px(image_center)
              /\ ly' = Px(image_center - circle_radius)
              /\ angle1' = 0
              /\ UNCHANGED angle2
         [] RingFunction = 2 ->
              /\ lx' = Px(image_center)
              /\ ly' = Px(image_center - (circle_radius * 2))
              /\ angle1' = 0
              /\ UNCHANGED angle2
         [] RingFunction \in { 3, 4 } ->
              /\ angle1' = 0
              /\ angle2' = DEGREE_60
              /\ UNCHANGED << lx, ly >>
         [] RingFunction = 5 ->
              /\ angle1' = 0
              /\ UNCHANGED << lx, ly, angle2 >>
         [] RingFunction = 6 ->
              /\ angle1' = -DEGREE_60
              /\ UNCHANGED << lx, ly, angle2 >>
    /\ pc' = IF RingFunction = 6 THEN "perimeter" ELSE "loop"
    /\ issued' = << >>
    /\ UNCHANGED << pass, ring, lj, lk, lg, ncmds, host, focusArrays,
                    flowerHistory >>
    /\ DrawingFrame

\* mutant of ring_point: the focus is left out
ring_point_unfocused(a, r) ==
    get_point_on_circle(<< 0, 0 >>, a, r)

\* get_point_on_circle(image_focus, angle, radius), lines 206, 225, 239, 284
ring_point(a, r) ==
    get_point_on_circle(PxPoint(image_focus), a, r)

\* one iteration of the loop of draw_1st_ring, lines 203-206
draw_1st_ring ==
    /\ plugin = "flower" /\ pc = "loop" /\ RingFunction = 1
    /\ LET cmds == draw_flower_circle(lx, ly, color)
           p == ring_point(angle1 + DEGREE_60, circle_radius)
       IN  \/ /\ Succeed(cmds, IF li = 5 THEN "merge" ELSE "loop")
              /\ angle1' = angle1 + DEGREE_60
              /\ lx' = p[1]
              /\ ly' = p[2]
              /\ li' = li + 1
           \/ /\ Fail(cmds)
              /\ UNCHANGED << angle1, lx, ly, li >>
    /\ UNCHANGED << pass, ring, color, lj, lk, lg, angle2 >>
    /\ UNCHANGED << focusArrays, rc_written, er_written, er_read, stale_read >>
    /\ DrawingFrame

\* one iteration of the loop of draw_2nd_ring, lines 221-225
draw_2nd_ring ==
    /\ plugin = "flower" /\ pc = "loop" /\ RingFunction = 2
    /\ LET cmds == draw_flower_circle(lx, ly, color)
           p == ring_point(angle1 + DEGREE_60, circle_radius * 2)
       IN  \/ /\ Succeed(cmds, IF li = 5 THEN "merge" ELSE "loop")
              /\ angle1' = angle1 + DEGREE_60
              /\ lx' = p[1]
              /\ ly' = p[2]
              /\ li' = li + 1
           \/ /\ Fail(cmds)
              /\ UNCHANGED << angle1, lx, ly, li >>
    /\ UNCHANGED << pass, ring, color, lj, lk, lg, angle2 >>
    /\ UNCHANGED << focusArrays, rc_written, er_written, er_read, stale_read >>
    /\ DrawingFrame

\* one iteration of the loop of draw_3rd_ring, lines 238-246
draw_3rd_ring ==
    /\ plugin = "flower" /\ pc = "loop" /\ RingFunction = 3
    /\ LET q == ring_point(angle1, circle_radius)
           p == get_point_on_circle(q, angle2, circle_radius)
           cmds == draw_flower_circle(p[1], p[2], color)
       IN  /\ ring_center' = [ring_center EXCEPT ![li + 1] = p]
           /\ rc_written' = rc_written \cup { li }
           /\ \/ /\ Succeed(cmds, IF li = 5 THEN "merge" ELSE "loop")
                 /\ angle1' = angle1 + DEGREE_60
                 /\ angle2' = angle2 + DEGREE_60
                 /\ li' = li + 1
              \/ /\ Fail(cmds)
                 /\ UNCHANGED << angle1, angle2, li >>
    /\ UNCHANGED << pass, ring, color, lj, lk, lg, lx, ly >>
    /\ UNCHANGED << extra_ring, er_written, er_read, stale_read >>
    /\ DrawingFrame

\* a, b = ring_center[i] or extra_ring[i] of an entry that holds no point
\* raises a TypeError, which ends the call
Raise ==
    /\ pc' = "failed"
    /\ issued' = << >>
    /\ UNCHANGED << ncmds, host, ring_fills, ring_order, circles >>

\* one iteration of the loop of draw_4th_ring, lines 259-270
draw_4th_ring ==
    /\ plugin = "flower" /\ pc = "loop" /\ RingFunction = 4
    /\ stale_read' = (stale_read \/ li \notin rc_written)
    /\ IF ring_center[li + 1] = NoPoint
       THEN Raise /\ UNCHANGED << angle1, angle2, li >>
       ELSE LET ab == ring_center[li + 1]
                p1 == get_point_on_circle(ab, angle1, circle_radius)
                p2 == get_point_on_circle(ab, angle2, circle_radius)
                cmds == draw_flower_circle(p1[1], p1[2], color)
                        \o draw_flower_circle(p2[1], p2[2], color)
            IN  \/ /\ Succeed(cmds, IF li = 5 THEN "merge" ELSE "loop")
                   /\ angle1' = angle1 + DEGREE_60
                   /\ angle2' = angle2 + DEGREE_60
                   /\ li' = li + 1
                \/ /\ Fail(cmds)
                   /\ UNCHANGED << angle1, angle2, li >>
    /\ UNCHANGED << pass, ring, color, lj, lk, lg, lx, ly >>
    /\ UNCHANGED << focusArrays, rc_written, er_written, er_read >>
    /\ DrawingFrame

\* one iteration of the loop of draw_5th_ring, lines 283-286
draw_5th_ring ==
    /\ plugin = "flower" /\ pc = "loop" /\ RingFunction = 5
    /\ LET p == ring_point(angle1, circle_radius * 3)
           cmds == draw_flower_circle(p[1], p[2], color)
       IN  \/ /\ Succeed(cmds, IF li = 5 THEN "merge" ELSE "loop")
              /\ angle1' = angle1 + DEGREE_60
              /\ li' = li + 1
           \/ /\ Fail(cmds)
              /\ UNCHANGED << angle1, li >>
    /\ UNCHANGED << pass, ring, color, lj, lk, lg, lx, ly, angle2 >>
    /\ UNCHANGED << focusArrays, rc_written, er_written, er_read, stale_read >>
    /\ DrawingFrame

\* mutant of perimeter_point: the step is a diameter long
perimeter_point_doubled(ab, a) ==
    get_point_on_circle(ab, a, circle_radius * 2)

\* get_point_on_circle((a, b), angle, circle_radius), line 301: the even
\* entry of extra_ring next to the ring-3 centre (a, b)
perimeter_point(ab, a) ==
    get_point_on_circle(ab, a, circle_radius)

\* one iteration of the first loop of draw_6th_ring, lines 298-302, and
\* after the last one lines 304-305
draw_6th_ring_perimeter ==
    /\ plugin = "flower" /\ pc = "perimeter" /\ RingFunction = 6
    /\ stale_read' = (stale_read \/ li \notin rc_written)
    /\ IF ring_center[li + 1] = NoPoint
       THEN /\ Raise
            /\ UNCHANGED << extra_ring, er_written, angle1, angle2, li >>
       ELSE LET ab == ring_center[li + 1]
            IN  /\ extra_ring' =
                       [extra_ring EXCEPT
                          ![(li * 2) + 2] = ab,
                          ![(li * 2) + 1] = perimeter_point(ab, angle1)]
                /\ er_written' = er_written \cup { (li * 2) + 1, li * 2 }
                /\ issued' = << >>
                /\ IF li = 5
                   THEN /\ pc' = "loop"
                        /\ li' = 0
                        /\ angle1' = 0
                        /\ angle2' = DEGREE_60
                   ELSE /\ pc' = "perimeter"
                        /\ li' = li + 1
                        /\ angle1' = angle1 + DEGREE_60
                        /\ UNCHANGED angle2
                /\ UNCHANGED << ncmds, host, ring_fills, ring_order, circles >>
    /\ lj' = 0 /\ lk' = 0 /\ lg' = 0
    /\ UNCHANGED << pass, ring, color, lx, ly >>
    /\ UNCHANGED << ring_center, rc_written, er_read >>
    /\ DrawingFrame

\* the values k takes in the three loop groups of draw_6th_ring:
\* (0, 2)[j], (4, 6)[j], (8, 10)[j]
Ring6K(g, j) == (4 * g) + (2 * j)

\* mutant of Ring6Angle1: the loop groups start 60 degrees apart
Ring6Angle1_close(g) ==
    CASE g = 0 -> 0 [] g = 1 -> DEGREE_60 [] g = 2 -> DEGREE_120

\* the angles each loop group of draw_6th_ring starts with
Ring6Angle1(g) == CASE g = 0 -> 0 [] g = 1 -> DEGREE_120 [] g = 2 -> DEGREE_240
Ring6Angle2(g) ==
    CASE g = 0 -> DEGREE_60 [] g = 1 -> DEGREE_180 [] g = 2 -> DEGREE_300

\* mutant of Ring6Index: the wrap comes one index early
Ring6Index_early(g, i, k) ==
    IF g = 2 /\ i + k > 10 THEN [i |-> 0, k |-> 0] ELSE [i |-> i, k |-> k]

\* the index draw_6th_ring reads extra_ring at, and the k it leaves, in the
\* iteration i of a loop over j of group g whose k is k: lines 339-340 are
\* in the third group only
Ring6Index(g, i, k) ==
    IF g = 2 /\ i + k > 11 THEN [i |-> 0, k |-> 0] ELSE [i |-> i, k |-> k]

\* one iteration of an inner loop of draw_6th_ring, lines 308-348
draw_6th_ring ==
    /\ plugin = "flower" /\ pc = "loop" /\ RingFunction = 6
    /\ LET k0 == IF li = 0 THEN Ring6K(lg, lj) ELSE lk
           ik == Ring6Index(lg, li, k0)
           n == ik.i + ik.k
       IN  /\ stale_read' = (stale_read \/ n \notin er_written)
           /\ er_read' = Append(er_read,
                                [k |-> Ring6K(lg, lj), i |-> li, n |-> n])
           /\ IF extra_ring[n + 1] = NoPoint
              THEN Raise /\ UNCHANGED << li, lj, lk, lg, angle1, angle2 >>
              ELSE LET ab == extra_ring[n + 1]
                       cd == get_point_on_circle(ab, angle1, circle_radius)
                       xy == get_point_on_circle(cd, angle2, circle_radius)
                       cmds == draw_flower_circle(xy[1], xy[2], color)
                   IN  \/ /\ Succeed(cmds, IF lg = 2 /\ lj = 1 /\ li = 2
                                           THEN "merge" ELSE "loop")
                          /\ lk' = ik.k
                          /\ IF li < 2
                             THEN /\ li' = li + 1
                                  /\ UNCHANGED << lj, lg, angle1, angle2 >>
                             ELSE /\ li' = 0
                                  /\ IF lj = 0
                                     THEN /\ lj' = 1
                                          /\ angle1' = angle1 + DEGREE_60
                                          /\ angle2' = angle2 + DEGREE_60
                                          /\ UNCHANGED lg
                                     ELSE /\ lj' = 0
                                          /\ lg' = lg + 1
                                          /\ angle1' = IF lg < 2
                                                       THEN Ring6Angle1(lg + 1)
                                                       ELSE angle1 + DEGREE_60
                                          /\ angle2' = IF lg < 2
                                                       THEN Ring6Angle2(lg + 1)
                                                       ELSE angle2 + DEGREE_60
                       \/ /\ Fail(cmds)
                          /\ UNCHANGED << li, lj, lk, lg, angle1, angle2 >>
    /\ UNCHANGED << pass, ring, color, lx, ly >>
    /\ UNCHANGED << focusArrays, rc_written, er_written >>
    /\ DrawingFrame

\* gimp_image_merge_visible_layers after a ring function returns (lines
\* 364-365, 406), then the next ring function or the frame
merge_ring ==
    /\ plugin = "flower" /\ pc = "merge"
    /\ LET cmds == << Cmd("gimp_image_merge_visible_layers", "", << >>) >>
       IN  \/ /\ Succeed(cmds, IF ring < 6 THEN "enter" ELSE "frame")
              /\ ring' = IF ring < 6 THEN ring + 1 ELSE ring
           \/ /\ Fail(cmds)
              /\ UNCHANGED ring
    /\ UNCHANGED << pass, color, li, lj, lk, lg, lx, ly, angle1, angle2 >>
    /\ UNCHANGED << focusArrays, rc_written, er_written, er_read, stale_read >>
    /\ DrawingFrame

\* what the steps between and after the passes leave alone
PlainFrame ==
    UNCHANGED << notFlower, args, plugin, calls, flowerGlobals, focusArrays,
                 rc_written, er_written, er_read, stale_read >>

GetLayer(name) == Cmd("gimp_image_get_layer_by_name", name, << >>)

\* draw_frame at the end of draw_colored_flower (line 408, with
\* frame_color) and of draw_black_and_white (line 366, with WHITE)
draw_frame_of_pass ==
    /\ plugin = "flower" /\ pc = "frame"
    /\ LET cmds == draw_frame(IF pass = "color" THEN frame_color ELSE WHITE)
       IN  \/ Succeed(cmds, IF pass = "color" THEN "rename" ELSE "alpha")
           \/ Fail(cmds)
    /\ UNCHANGED flowerLocals
    /\ PlainFrame

\* Lines 409-410, the end of draw_colored_flower, then draw_gradient (line
\* 708) and lines 710-718
render_flower_gradient ==
    /\ plugin = "flower" /\ pc = "rename"
    /\ LET cmds == << GetLayer(BASE), Cmd("layer.name", COLOR_LAYER, << >>) >>
                   \o draw_gradient
                   \o << GetLayer(GRADIENT),
                         Cmd("gimp_item_set_visible", GRADIENT, << 0 >>),
                         Cmd("gimp_layer_copy", GRADIENT, << 1 >>),
                         Cmd("image.add_layer", "Gradient copy", << 0 >>),
                         GetLayer(COLOR_LAYER),
                         Cmd("gimp_item_set_visible", COLOR_LAYER, << 0 >>) >>
       IN  \/ Succeed(cmds, "bwbase")
           \/ Fail(cmds)
    /\ UNCHANGED flowerLocals
    /\ PlainFrame

\* Lines 720-723: the base layer of the black and white flower
render_flower_base_layer ==
    /\ plugin = "flower" /\ pc = "bwbase"
    /\ LET cmds == make_new_layer(BASE, TRUE, args.mode > 0)
                   \o (IF flower_type # LINES THEN fill_layer(BASE, WHITE)
                       ELSE << >>)
       IN  \/ /\ Succeed(cmds, "center")
              /\ StartPass("bw")
           \/ /\ Fail(cmds)
              /\ UNCHANGED flowerLocals
    /\ PlainFrame

\* create_bw_alpha, lines 130-141: up to the loop over the perimeter
create_bw_alpha ==
    /\ plugin = "flower" /\ pc = "alpha"
    /\ LET cmds == (IF flower_type = PETALS
                    THEN << GetLayer(BASE),
                            Cmd("plug_in_colortoalpha", BASE, BLACK) >>
                    ELSE << >>)
                   \o make_new_layer(MASK, TRUE, FALSE)
                   \o fill_layer(MASK, BLACK)
       IN  \/ /\ Succeed(cmds, "alpha_perimeter")
              /\ li' = 0
           \/ /\ Fail(cmds)
              /\ UNCHANGED li
    /\ UNCHANGED << pass, ring, color, lj, lk, lg, lx, ly, angle1, angle2 >>
    /\ PlainFrame

\* one iteration of the loop of create_bw_alpha, lines 144-157
create_bw_alpha_perimeter ==
    /\ plugin = "flower" /\ pc = "alpha_perimeter"
    /\ stale_read' = (stale_read \/ li \notin er_written)
    /\ IF extra_ring[li + 1] = NoPoint
       THEN Raise /\ UNCHANGED li
       ELSE LET lines == flower_type = LINES
                dim1 == circle_diameter + (IF lines THEN line_width ELSE 0)
                line_w == IF lines THEN line_width \div 2 ELSE 0
                x == extra_ring[li + 1][1] - Px(circle_radius) - Px(line_w)
                y == extra_ring[li + 1][2] - Px(circle_radius) - Px(line_w)
                cmds == << SelectEllipse("CHANNEL_OP_ADD", x, y,
                                         Px(dim1), Px(dim1)) >>
            IN  \/ /\ Succeed(cmds, IF li = 11 THEN "alpha_center"
                                    ELSE "alpha_perimeter")
                   /\ li' = li + 1
                \/ /\ Fail(cmds)
                   /\ UNCHANGED li
    /\ UNCHANGED << pass, ring, color, lj, lk, lg, lx, ly, angle1, angle2 >>
    /\ UNCHANGED << notFlower, args, plugin, calls, flowerGlobals, focusArrays,
                    rc_written, er_written, er_read >>

\* create_bw_alpha, lines 159-189: the centre, the frame, the mask
create_bw_alpha_mask ==
    /\ plugin = "flower" /\ pc = "alpha_center"
    /\ LET x == Px(image_center - circle_diameter)
           dim == Px(circle_diameter * 2)
           cmds == << SelectEllipse("CHANNEL_OP_ADD", x, x, dim, dim) >>
                   \o draw_circle_selection(x, x)
                   \o fill_circle(MASK, WHITE)
                   \o << Cmd("gimp_selection_none", "", << >>) >>
                   \o draw_frame(WHITE)
                   \o << GetLayer(MASK), GetLayer(BASE),
                         Cmd("gimp_image_select_color", MASK, WHITE),
                         Cmd("gimp_layer_create_mask", MASK, << >>),
                         Cmd("gimp_layer_add_mask", BASE, << >>),
                         Cmd("gimp_selection_none", "", << >>),
                         Cmd("gimp_image_remove_layer", MASK, << >>) >>
       IN  \/ Succeed(cmds, "merge_final")
           \/ Fail(cmds)
    /\ UNCHANGED flowerLocals
    /\ PlainFrame

\* Lines 728-760: the merge, then the transfer of the alpha to the color
\* layer and the message, or the inversion of the black and white image
render_flower_compose ==
    /\ plugin = "flower" /\ pc = "merge_final"
    /\ LET show(n) == << GetLayer(n),
                         Cmd("gimp_item_set_visible", n, << 1 >>) >>
           flat == [k \in 1..(3 * RING_COLORS_COUNT) |->
                       ring_colors[((k - 1) \div 3) + 1][((k - 1) % 3) + 1]]
           cmds == << Cmd("gimp_image_merge_visible_layers", "", << >>) >>
                   \o (IF args.mode # 0
                       THEN << GetLayer(BASE),
                               Cmd("gimp_layer_create_mask", BASE, << >>),
                               GetLayer(COLOR_LAYER),
                               Cmd("gimp_layer_add_mask", COLOR_LAYER, << >>),
                               GetLayer(BASE),
                               Cmd("gimp_image_remove_layer", BASE, << >>) >>
                            \o show(GRADIENT) \o show("Gradient copy")
                            \o show(COLOR_LAYER)
                            \o << Cmd("gimp_image_merge_visible_layers", "",
                                      << >>) >>
                            \o info_msg(flat)
                       ELSE << GetLayer(BASE),
                               Cmd("gimp_drawable_invert", BASE, << 1 >>) >>)
       IN  \/ Succeed(cmds, "scale")
           \/ Fail(cmds)
    /\ UNCHANGED flowerLocals
    /\ PlainFrame

\* Lines 762-769: the scaling back, the end of the undo group
render_flower_finish ==
    /\ plugin = "flower" /\ pc = "scale"
    /\ LET cmds == << Cmd("gimp_image_scale_full", "",
                          << scale_size, scale_size >>),
                      Cmd("gimp_image_undo_group_end", "", << >>),
                      Cmd("gimp_context_pop", "", << >>) >>
       IN  \/ Succeed(cmds, "done")
           \/ Fail(cmds)
    /\ UNCHANGED flowerLocals
    /\ PlainFrame

FlowerStep ==
    \/ render_flower_setup
    \/ render_flower_color_layer
    \/ render_flower_random_colors
    \/ draw_center_circle
    \/ enter_ring_function
    \/ draw_1st_ring
    \/ draw_2nd_ring
    \/ draw_3rd_ring
    \/ draw_4th_ring
    \/ draw_5th_ring
    \/ draw_6th_ring_perimeter
    \/ draw_6th_ring
    \/ merge_ring
    \/ draw_frame_of_pass
    \/ render_flower_gradient
    \/ render_flower_base_layer
    \/ create_bw_alpha
    \/ create_bw_alpha_perimeter
    \/ create_bw_alpha_mask
    \/ render_flower_compose
    \/ render_flower_finish

\* ------------------------------------------------------------ flower: the calls
\* the colours of the dialog
Palettes ==
    { [ colors |-> << << 0, 255, 0 >>, << 0, 230, 0 >>, << 0, 204, 0 >>,
                      << 0, 179, 0 >>, << 0, 153, 0 >>, << 0, 128, 0 >>,
                      << 0, 102, 0 >> >>,
        frame_col |-> << 0, 77, 0 >> ],
      [ colors |-> << << 255, 0, 0 >>, << 255, 128, 0 >>, << 255, 255, 0 >>,
                      << 0, 255, 0 >>, << 0, 0, 255 >>, << 75, 0, 130 >>,
                      << 148, 0, 211 >> >>,
        frame_col |-> << 10, 20, 30 >> ] }

\* the arguments of render_flower that are tried
FlowerArgs ==
    { [ symbol_radius |-> r, mode |-> m, flower_part |-> t,
        colors |-> p.colors, line_w |-> l, frame_w |-> f,
        frame_col |-> p.frame_col ] :
        r \in { 60, 100 }, m \in 0..2, t \in { LINES, PETALS, CIRCLES },
        p \in Palettes, l \in { 1, 8 }, f \in { 0, 5 } }

\* the state after the plug-in module is loaded
InitFlower ==
    /\ args = [ symbol_radius |-> 0, mode |-> 0, flower_part |-> 0,
                colors |-> << >>, line_w |-> 0, frame_w |-> 0,
                frame_col |-> BLACK ]
    /\ frame_width = 0 /\ flower_radius = 0 /\ flower_type = 0
    /\ line_width = 0 /\ frame_color = BLACK /\ color_mode = 0
    /\ ring_colors = << >> /\ image_size = 0 /\ image_center = 0
    /\ image_focus = << 0, 0 >> /\ circle_radius = 0 /\ circle_diameter = 0
    /\ scale_size = 0
    /\ ring_center = [i \in 1..6 |-> NoPoint]
    /\ extra_ring = [i \in 1..12 |-> NoPoint]
    /\ pass = "none" /\ ring = 0 /\ color = BLACK
    /\ li = 0 /\ lj = 0 /\ lk = 0 /\ lg = 0
    /\ lx = 0 /\ ly = 0 /\ angle1 = 0 /\ angle2 = 0
    /\ ring_fills = [r \in 0..6 |-> { }]
    /\ ring_order = << >>
    /\ rc_written = { } /\ er_written = { } /\ stale_read = FALSE
    /\ circles = << >> /\ er_read = << >>

InitHost ==
    /\ plugin = "none" /\ pc = "idle" /\ calls = 0
    /\ issued = << >> /\ ncmds = 0 /\ host = HostIdle

\* a single evaluation of get_point_on_circle that is not under study
IdlePoint ==
    /\ gp_focus = << 0, 0 >> /\ gp_angle = 0 /\ gp_radius = 0
    /\ gp_point = << 0, 0 >> /\ gp_called = FALSE

\* the host calls render_flower
CallFlower ==
    /\ pc = "idle"
    /\ \E a \in FlowerArgs : render_flower_call(a)

\* ------------------------------------------------------------ colorsys
\* the modes of yin-yang 1.05 (lines 135-136), its gap around the symbol
\* (line 132) and its scale (line 139)
YY_GRADIENT == 1
YY_INVERTED_COLOR == 2
YY_POLAR_HUE == 3
YY_POLAR_LIGHTNESS == 4
YY_POLAR_SATURATION == 5
YY_PATTERN == 6
FRAME_WIDTH_INT == 2
YY_SCALE == 4

Max3(c) ==
    IF c[1] >= c[2] /\ c[1] >= c[3] THEN c[1]
    ELSE IF c[2] >= c[3] THEN c[2] ELSE c[3]

Min3(c) ==
    IF c[1] <= c[2] /\ c[1] <= c[3] THEN c[1]
    ELSE IF c[2] <= c[3] THEN c[2] ELSE c[3]

\* colorsys.rgb_to_hls(c[0] / 255.0, c[1] / 255.0, c[2] / 255.0), as exact
\* fractions: the hue is hn / (6 * d), the lightness ln / 510, the
\* saturation sn / sd
rgb_to_hls(c) ==
    LET maxc == Max3(c)
        minc == Min3(c)
        d == maxc - minc
    IN  IF d = 0
        THEN [ hn |-> 0, d |-> 1, ln |-> maxc + minc, sn |-> 0, sd |-> 1 ]
        ELSE LET sixths == IF c[1] = maxc THEN c[2] - c[3]
                           ELSE IF c[2] = maxc THEN (2 * d) + (c[3] - c[1])
                           ELSE (4 * d) + (c[1] - c[2])
             IN  [ hn |-> sixths % (6 * d),
                   d |-> d,
                   ln |-> maxc + minc,
                   sn |-> d,
                   sd |-> IF maxc + minc <= 255 THEN maxc + minc
                          ELSE 510 - maxc - minc ]

\* colorsys._v(m1, m2, hue): the numerator of the result over the
\* denominator of m1 and m2 times d, for the hue hue / (6 * d)
colorsys_v(m1n, m2n, d, hue) ==
    LET un == hue % (6 * d)
    IN  IF un < d THEN (m1n * d) + ((m2n - m1n) * un)
        ELSE IF un < 3 * d THEN m2n * d
        ELSE IF un < 4 * d THEN (m1n * d) + ((m2n - m1n) * ((4 * d) - un))
        ELSE m1n * d

\* int(x * 255) for x * 255 = num / den: the truncation.  When num / den
\* is a whole number n > 0 the double x * 255 is n or just below it, and
\* the result n or n - 1 (ulp = 1).  The three results of a grey are one
\* double (return l, l, l) and share their ulp
IntTimes255(num, den, ulp) ==
    LET n == num \div den
    IN  IF num % den = 0 /\ n > 0 /\ ulp = 1 THEN n - 1 ELSE n

Ulps == { << a, b, c >> : a \in 0..1, b \in 0..1, c \in 0..1 }

\* mutant of hls_to_rgb: the red and blue results change places
hls_to_rgb_swapped(x, ulps) ==
    IF x.sn = 0
    THEN << IntTimes255(x.ln, 2, ulps[1]), IntTimes255(x.ln, 2, ulps[1]),
            IntTimes255(x.ln, 2, ulps[1]) >>
    ELSE LET m2n == IF x.ln <= 255 THEN x.ln * (x.sd + x.sn)
                    ELSE ((x.ln * x.sd) + (510 * x.sn)) - (x.ln * x.sn)
             m1n == (2 * x.ln * x.sd) - m2n
             den == 2 * x.sd * x.d
         IN  << IntTimes255(colorsys_v(m1n, m2n, x.d, x.hn + (4 * x.d)),
                            den, ulps[1]),
                IntTimes255(colorsys_v(m1n, m2n, x.d, x.hn), den, ulps[2]),
                IntTimes255(colorsys_v(m1n, m2n, x.d, x.hn + (2 * x.d)),
                            den, ulps[3]) >>

\* colorsys.hls_to_rgb(h, l, s) and lines 356-357, c[i] = int(rgb[i] * 255)
hls_to_rgb(x, ulps) ==
    IF x.sn = 0
    THEN << IntTimes255(x.ln, 2, ulps[1]), IntTimes255(x.ln, 2, ulps[1]),
            IntTimes255(x.ln, 2, ulps[1]) >>
    ELSE LET m2n == IF x.ln <= 255 THEN x.ln * (x.sd + x.sn)
                    ELSE ((x.ln * x.sd) + (510 * x.sn)) - (x.ln * x.sn)
             m1n == (2 * x.ln * x.sd) - m2n
             den == 2 * x.sd * x.d
         IN  << IntTimes255(colorsys_v(m1n, m2n, x.d, x.hn + (2 * x.d)),
                            den, ulps[1]),
                IntTimes255(colorsys_v(m1n, m2n, x.d, x.hn), den, ulps[2]),
                IntTimes255(colorsys_v(m1n, m2n, x.d, x.hn + (4 * x.d)),
                            den, ulps[3]) >>

\* lines 330-358 of yin-yang 1.05 (305-328 of 1.02): flow colour 2 from
\* flow_color_1, with the hue (h = 1 - h), the lightness or the saturation
\* inverted
polar_color(kind, flow_color_1, ulps) ==
    LET hls == rgb_to_hls(flow_color_1)
        inverted ==
            CASE kind = "hue" -> [hls EXCEPT !.hn = (6 * hls.d) - hls.hn]
              [] kind = "lightness" -> [hls EXCEPT !.ln = 510 - hls.ln]
              [] kind = "saturation" -> [hls EXCEPT !.sn = hls.sd - hls.sn]
    IN  hls_to_rgb(inverted, ulps)

\* which property a mode inverts: 1.05 compares with YY_POLAR_HUE,
\* YY_POLAR_LIGHTNESS and YY_POLAR_SATURATION (lines 330-352), 1.02 with 2
\* and 4 (lines 305-321)
PolarKind(ver, mode) ==
    IF ver = "1.05"
    THEN CASE mode = YY_POLAR_HUE -> "hue"
           [] mode = YY_POLAR_LIGHTNESS -> "lightness"
           [] mode = YY_POLAR_SATURATION -> "saturation"
           [] OTHER -> "none"
    ELSE CASE mode = 2 -> "hue"
           [] mode = 4 -> "saturation"
           [] OTHER -> "none"

\* the mode that inverts the RGB (line 323 of 1.05, 298 of 1.02) and the
\* mode that fills with patterns (line 237 of 1.05, 216 of 1.02);
\* InvertedColorMode_swapped is a mutant that takes each version's mode
\* for the other's
InvertedColorMode_swapped(ver) == IF ver = "1.05" THEN 3 ELSE YY_INVERTED_COLOR
InvertedColorMode(ver) == IF ver = "1.05" THEN YY_INVERTED_COLOR ELSE 3
PatternMode(ver) == IF ver = "1.05" THEN YY_PATTERN ELSE 5

\* ------------------------------------------------------------ yin-yang: helpers
\* the attributes of class yy before a call (lines 142-156); rim_width and
\* mode have no value until render_yin_yang gives them one
YYClass ==
    [ rim_width |-> 0, mode |-> 0, symbol_size |-> 0, symbol_dimension |-> 0,
      image_size |-> 0, center |-> 0, flow_size |-> 0, head_diameter |-> 0,
      head_radius |-> 0, eye_radius |-> 0, eye_diameter |-> 0,
      flow_offset |-> 0 ]

\* the scale of a version: 1.05 draws at four times the size, 1.02 at the
\* size asked for
ScaleOf(ver) == IF ver = "1.05" THEN YY_SCALE ELSE 1

\* mutant of yy_initialised: the rim is taken off the flow at eight times
\* its width
yy_initialised_thick_rim(ver, a) ==
    LET rim == a.rim_width * ScaleOf(ver)
        symbol == a.symbol_diameter * ScaleOf(ver)
        size == symbol + (2 * FRAME_WIDTH_INT)
        flow == symbol - (rim * 8)
        eye == Px(flow) \div a.eye_divisor
    IN  [ rim_width |-> rim, mode |-> a.mode, symbol_size |-> symbol,
          symbol_dimension |-> symbol, image_size |-> size,
          center |-> size \div 2, flow_size |-> flow,
          head_diameter |-> Px(flow) \div 2,
          head_radius |-> (Px(flow) \div 2) \div 2,
          eye_radius |-> eye, eye_diameter |-> eye * 2,
          flow_offset |-> Px(FRAME_WIDTH_INT + a.rim_width) ]

\* lines 302-315 of 1.05 (281-294 of 1.02): the attributes after the
\* initialisation.  Whole numbers of pixels stay whole; head_diameter,
\* head_radius, eye_radius, eye_diameter and flow_offset are floats, here
\* in micro-pixels
yy_initialised(ver, a) ==
    LET rim == a.rim_width * ScaleOf(ver)
        symbol == a.symbol_diameter * ScaleOf(ver)
        size == symbol + (2 * FRAME_WIDTH_INT)
        flow == symbol - (rim * 2)
        eye == Px(flow) \div a.eye_divisor
    IN  [ rim_width |-> rim, mode |-> a.mode, symbol_size |-> symbol,
          symbol_dimension |-> symbol, image_size |-> size,
          center |-> size \div 2, flow_size |-> flow,
          head_diameter |-> Px(flow) \div 2,
          head_radius |-> (Px(flow) \div 2) \div 2,
          eye_radius |-> eye, eye_diameter |-> eye * 2,
          flow_offset |-> Px(FRAME_WIDTH_INT + a.rim_width) ]

\* mutant of yy_scaled_back: the centre is scaled back too
yy_scaled_back_with_center(y) ==
    [y EXCEPT !.image_size = y.image_size \div YY_SCALE,
              !.center = y.center \div YY_SCALE]

\* line 406: yy.image_size = int(yy.image_size / SCALE)
yy_scaled_back(y) == [y EXCEPT !.image_size = y.image_size \div YY_SCALE]

\* mutant of draw_flow_selection: the circle is not moved in by the rim
draw_flow_selection_unrimmed(operation) ==
    << SelectEllipse(operation, Px(FRAME_WIDTH_INT), Px(FRAME_WIDTH_INT),
                     Px(yy.flow_size), Px(yy.flow_size)) >>

\* draw_flow_selection(operation)
draw_flow_selection(operation) ==
    LET a == Px(FRAME_WIDTH_INT + yy.rim_width)
    IN  << SelectEllipse(operation, a, a, Px(yy.flow_size), Px(yy.flow_size)) >>

\* fill(color, material): material 0 is BUCKET_FILL_FG, 2 BUCKET_FILL_PATTERN
fill(c, material) ==
    << Cmd("gimp_context_set_foreground", "", c),
       Cmd("gimp_edit_bucket_fill", BASE, << material >>) >>

\* mutant of draw_side: the eyes of the second side are where those of the
\* first side are
draw_side_unmirrored(flow_color, gradient, pattern, i) ==
    LET eye_offset == yy.head_diameter \div 2
        head_x == Px(yy.center) - yy.head_radius
        eye_x == Px(yy.center) - yy.eye_radius
        eye_low == (Px(yy.center) + eye_offset) - yy.eye_radius
        eye_high == (Px(yy.center) - eye_offset) - yy.eye_radius
    IN  draw_flow_selection("CHANNEL_OP_REPLACE")
        \o << Cmd("gimp_image_select_rectangle", "CHANNEL_OP_SUBTRACT",
                  << IF i = 0 THEN 0 ELSE Px(yy.center), 0,
                     Px(yy.center), Px(yy.image_size) >>),
              SelectEllipse("CHANNEL_OP_ADD", head_x,
                            IF i = 0 THEN Px(yy.center) ELSE yy.flow_offset,
                            yy.head_diameter, yy.head_diameter),
              SelectEllipse("CHANNEL_OP_SUBTRACT", head_x,
                            IF i = 0 THEN yy.flow_offset ELSE Px(yy.center),
                            yy.head_diameter, yy.head_diameter),
              SelectEllipse("CHANNEL_OP_SUBTRACT", eye_x, eye_low,
                            yy.eye_diameter, yy.eye_diameter),
              SelectEllipse("CHANNEL_OP_ADD", eye_x, eye_high,
                            yy.eye_diameter, yy.eye_diameter) >>
        \o fill(flow_color, 0)

\* draw_side(flow_color, gradient, pattern, i)
draw_side(flow_color, gradient, pattern, i) ==
    LET eye_offset == yy.head_diameter \div 2
        head_x == Px(yy.center) - yy.head_radius
        eye_x == Px(yy.center) - yy.eye_radius
        eye_low == (Px(yy.center) + eye_offset) - yy.eye_radius
        eye_high == (Px(yy.center) - eye_offset) - yy.eye_radius
    IN  draw_flow_selection("CHANNEL_OP_REPLACE")
        \o << Cmd("gimp_image_select_rectangle", "CHANNEL_OP_SUBTRACT",
                  << IF i = 0 THEN 0 ELSE Px(yy.center), 0,
                     Px(yy.center), Px(yy.image_size) >>),
              SelectEllipse("CHANNEL_OP_ADD", head_x,
                            IF i = 0 THEN Px(yy.center) ELSE yy.flow_offset,
                            yy.head_diameter, yy.head_diameter),
              SelectEllipse("CHANNEL_OP_SUBTRACT", head_x,
                            IF i = 0 THEN yy.flow_offset ELSE Px(yy.center),
                            yy.head_diameter, yy.head_diameter),
              SelectEllipse("CHANNEL_OP_SUBTRACT", eye_x,
                            IF i = 0 THEN eye_low ELSE eye_high,
                            yy.eye_diameter, yy.eye_diameter),
              SelectEllipse("CHANNEL_OP_ADD", eye_x,
                            IF i = 0 THEN eye_high ELSE eye_low,
                            yy.eye_diameter, yy.eye_diameter) >>
        \o (IF yy.mode = YY_GRADIENT
            THEN << Cmd("gimp_context_set_gradient", gradient, << >>),
                    Cmd("gimp_drawable_edit_gradient_fill", BASE,
                        << IF i = 0 THEN Px(yy.center) - yy.head_radius
                           ELSE Px(yy.center) + yy.head_radius,
                           IF i = 0 THEN Px(yy.center) + yy.head_radius
                           ELSE Px(yy.center) - yy.head_radius,
                           IF i = 0 THEN Px(yy.image_size - FRAME_WIDTH_INT)
                           ELSE Px(FRAME_WIDTH_INT),
                           IF i = 0 THEN Px(FRAME_WIDTH_INT)
                           ELSE Px(yy.image_size - FRAME_WIDTH_INT) >>) >>
            ELSE IF yy.mode = PatternMode(version)
            THEN << Cmd("gimp_context_set_pattern", pattern, << >>) >>
                 \o fill(flow_color, 2)
            ELSE fill(flow_color, 0))

\* new_gradient(left_color, right_color, i): the commands; the gradient
\* returned is named by GradientName(i)
GradientName(i) == IF i = 1 THEN "yin-yang1" ELSE "yin-yang2"

new_gradient(left_color, right_color, i) ==
    << Cmd("gimp_gradient_new", GradientName(i), << >>),
       Cmd("gimp_gradient_segment_set_right_color", GradientName(i),
           right_color),
       Cmd("gimp_gradient_segment_set_left_color", GradientName(i),
           left_color),
       Cmd("gimp_gradient_segment_range_set_blending_function",
           GradientName(i), << 0, -1 >>),
       Cmd("gimp_gradient_segment_range_set_coloring_type",
           GradientName(i), << 0, -1 >>) >>

\* no gradient (None)
NoGradient == ""

\* int(x) of a float given in millionths: towards zero
IntOf(x) == IF x >= 0 THEN x \div FP ELSE 0 - ((0 - x) \div FP)

\* math.radians(angle), micro-degrees to micro-radians, with 355 / 113
\* for pi
Radians(a) == ((a \div 36) * 355) \div 565

\* mutant of BoundedAngle: the angle is brought back only beyond 200
\* degrees
BoundedAngle_late(a) ==
    IF a > 200 * FP THEN a - (360 * FP)
    ELSE IF a < 0 - (200 * FP) THEN (360 * FP) + a
    ELSE a

\* lines 421-425: the angle kept in the host's rotation bounds
BoundedAngle(a) ==
    IF a > 180 * FP THEN a - (360 * FP)
    ELSE IF a < 0 - (180 * FP) THEN (360 * FP) + a
    ELSE a

\* ------------------------------------------------------------ yin-yang: render_yin_yang
\* what the yin-yang plug-in has no access to
notYinYang == << pointVars, polarVars, flowerVars >>

\* what the steps of render_yin_yang leave alone
YinYangFrame ==
    UNCHANGED << notYinYang, plugin, calls, version, yy_args >>

\* The host calls render_yin_yang of version ver with arguments a: line
\* 299, gimp_context_push, then the initialisation of lines 302-316.
render_yin_yang_call(ver, a) ==
    /\ version' = ver
    /\ yy_args' = a
    /\ calls' = calls + 1
    /\ plugin' = "yin-yang"
    /\ issued' = << Cmd("gimp_context_push", "", << >>) >>
    /\ ncmds' = 1
    /\ flow_color_2' = a.flow_color_2
    /\ gradient_1' = NoGradient /\ gradient_2' = NoGradient
    /\ side' = 0 /\ frame' = 0 /\ angle' = 0 /\ rotation' = 0
    /\ \/ /\ pc' = "yy_colors"
          /\ host' = HostIdle
          /\ yy' = yy_initialised(ver, a)
          /\ timer' = IF a.frame_count > 1 THEN a.frame_timer ELSE 0
       \/ /\ pc' = "failed"
          /\ host' = [HostIdle EXCEPT !.failures = 1]
          /\ UNCHANGED << yy, timer >>
    /\ UNCHANGED notYinYang

\* Lines 319-358: the selection settings (1.05 only), then flow colour 2.
render_yin_yang_colors ==
    /\ plugin = "yin-yang" /\ pc = "yy_colors"
    /\ LET cmds == IF version = "1.05"
                   THEN << Cmd("gimp_context_set_antialias", "", << 0 >>),
                           Cmd("gimp_context_set_feather", "", << 0 >>) >>
                   ELSE << >>
           c1 == yy_args.flow_color_1
       IN  \/ /\ Succeed(cmds, "yy_image")
              /\ IF yy.mode = InvertedColorMode(version)
                 THEN flow_color_2' = << 255 - c1[1], 255 - c1[2], 255 - c1[3] >>
                 ELSE IF PolarKind(version, yy.mode) # "none"
                 THEN \E ulps \in Ulps :
                         flow_color_2' =
                             polar_color(PolarKind(version, yy.mode), c1, ulps)
                 ELSE UNCHANGED flow_color_2
           \/ /\ Fail(cmds)
              /\ UNCHANGED flow_color_2
    /\ UNCHANGED << yy, gradient_1, gradient_2, timer, side, frame, angle,
                    rotation >>
    /\ YinYangFrame

\* Lines 361-373: the new image, its base layer, the display, and the
\* start of the undo group.
render_yin_yang_image ==
    /\ plugin = "yin-yang" /\ pc = "yy_image"
    /\ LET cmds == << Cmd("gimp.Image", "", << yy.image_size, yy.image_size >>),
                      Cmd("gimp_layer_new", BASE,
                          << yy.image_size, yy.image_size, timer >>),
                      Cmd("image.add_layer", BASE, << 0 >>),
                      Cmd("gimp_display_new", "", << >>),
                      Cmd("gimp_image_undo_group_start", "", << >>) >>
       IN  \/ Succeed(cmds, IF yy.mode = YY_GRADIENT THEN "yy_gradients"
                            ELSE "yy_side")
           \/ Fail(cmds)
    /\ UNCHANGED << yy, yyLocals >>
    /\ YinYangFrame

\* Lines 377-380: the two gradients of the gradient mode.
render_yin_yang_gradients ==
    /\ plugin = "yin-yang" /\ pc = "yy_gradients"
    /\ LET cmds == new_gradient(yy_args.flow_color_1, flow_color_2, 1)
                   \o new_gradient(flow_color_2, yy_args.flow_color_1, 2)
       IN  \/ /\ Succeed(cmds, "yy_side")
              /\ gradient_1' = GradientName(1)
              /\ gradient_2' = GradientName(2)
           \/ /\ Fail(cmds)
              /\ UNCHANGED << gradient_1, gradient_2 >>
    /\ UNCHANGED << yy, flow_color_2, timer, side, frame, angle, rotation >>
    /\ YinYangFrame

\* Lines 382-383: draw_side for side 0, then for side 1.
render_yin_yang_side ==
    /\ plugin = "yin-yang" /\ pc = "yy_side"
    /\ LET cmds == IF side = 0
                   THEN draw_side(yy_args.flow_color_1, gradient_1,
                                  yy_args.flow_pattern_1, 0)
                   ELSE draw_side(flow_color_2, gradient_2,
                                  yy_args.flow_pattern_2, 1)
       IN  \/ /\ Succeed(cmds, IF side = 0 THEN "yy_side" ELSE "yy_rim")
              /\ side' = side + 1
           \/ /\ Fail(cmds)
              /\ UNCHANGED side
    /\ UNCHANGED << yy, flow_color_2, gradient_1, gradient_2, timer, frame,
                    angle, rotation >>
    /\ YinYangFrame

\* where the call goes on after the symbol is drawn: the frames of an
\* animation (line 412) or the clean-up
AfterSymbol == IF yy_args.frame_count > 1 THEN "yy_frames" ELSE "yy_cleanup"

\* mutant of FirstAngle: the direction is not taken into account
FirstAngle_unsigned ==
    IF yy_args.frame_count > 1 THEN (360 * FP) \div yy_args.frame_count ELSE 0

\* line 413: rotation = angle = 360 / frame_count * (1, -1)[direction],
\* in micro-degrees
FirstAngle ==
    IF yy_args.frame_count > 1
    THEN ((360 * FP) \div yy_args.frame_count)
         * (IF yy_args.direction = 0 THEN 1 ELSE -1)
    ELSE 0

\* Lines 385-404: the rim, the end of the selection, the flip.
render_yin_yang_rim ==
    /\ plugin = "yin-yang" /\ pc = "yy_rim"
    /\ LET cmds == (IF yy.rim_width # 0
                    THEN << SelectEllipse("CHANNEL_OP_REPLACE",
                                          Px(FRAME_WIDTH_INT),
                                          Px(FRAME_WIDTH_INT),
                                          Px(yy.symbol_dimension),
                                          Px(yy.symbol_dimension)) >>
                         \o draw_flow_selection("CHANNEL_OP_SUBTRACT")
                         \o fill(yy_args.rim_color, 0)
                    ELSE << >>)
                   \o << Cmd("gimp_selection_none", "", << >>) >>
                   \o (IF yy_args.direction # 0
                       THEN << Cmd("gimp_item_transform_flip_simple", BASE,
                                   << >>) >>
                       ELSE << >>)
       IN  \/ /\ Succeed(cmds, IF version = "1.05" THEN "yy_scale"
                               ELSE AfterSymbol)
              /\ IF version = "1.05"
                 THEN UNCHANGED << angle, rotation >>
                 ELSE angle' = FirstAngle /\ rotation' = FirstAngle
           \/ /\ Fail(cmds)
              /\ UNCHANGED << angle, rotation >>
    /\ UNCHANGED << yy, flow_color_2, gradient_1, gradient_2, timer, side,
                    frame >>
    /\ YinYangFrame

\* Lines 406-409 of 1.05: the image size is divided by SCALE and the image
\* scaled back to it.
render_yin_yang_scale ==
    /\ plugin = "yin-yang" /\ pc = "yy_scale"
    /\ yy' = yy_scaled_back(yy)
    /\ LET size == yy_scaled_back(yy).image_size
           cmds == << Cmd("gimp_image_scale_full", "", << size, size >>) >>
       IN  \/ /\ Succeed(cmds, AfterSymbol)
              /\ angle' = FirstAngle /\ rotation' = FirstAngle
           \/ /\ Fail(cmds)
              /\ UNCHANGED << angle, rotation >>
    /\ UNCHANGED << flow_color_2, gradient_1, gradient_2, timer, side, frame >>
    /\ YinYangFrame

\* One iteration of the loop over the frames, lines 416-442 of 1.05
\* (381-405 of 1.02).
render_yin_yang_frame ==
    /\ plugin = "yin-yang" /\ pc = "yy_frames"
    /\ LET a == BoundedAngle(angle)
           cmds == << Cmd("gimp_layer_copy", BASE, << 1 >>),
                      Cmd("image.add_layer", "layer_copy", << 0 >>),
                      Cmd("layer.name", "layer_copy", << IntOf(a), timer >>),
                      Cmd("gimp_item_transform_rotate", "layer_copy",
                          << Radians(a), Px(yy.center), Px(yy.center) >>) >>
                   \o (IF version = "1.05"
                       THEN << Cmd("gimp_displays_flush", "", << >>),
                               Cmd("gimp_image_crop", "",
                                   << yy.image_size, yy.image_size, 0, 0 >>) >>
                       ELSE << Cmd("layer.merge_shadow", "layer_copy", << >>),
                               Cmd("layer.flush", "layer_copy", << >>) >>)
       IN  \/ /\ Succeed(cmds, IF frame + 1 < yy_args.frame_count - 1
                               THEN "yy_frames" ELSE "yy_cleanup")
              /\ angle' = a + rotation
              /\ frame' = frame + 1
           \/ /\ Fail(cmds)
              /\ UNCHANGED << angle, frame >>
    /\ UNCHANGED << yy, flow_color_2, gradient_1, gradient_2, timer, side,
                    rotation >>
    /\ YinYangFrame

\* mutant of render_yin_yang_cleanup: the second gradient is not deleted
render_yin_yang_cleanup_leaking ==
    /\ plugin = "yin-yang" /\ pc = "yy_cleanup"
    /\ LET cmds == (IF version = "1.05" /\ gradient_1 # NoGradient
                    THEN << Cmd("gimp_gradient_delete", gradient_1, << >>) >>
                    ELSE << >>)
                   \o << Cmd("gimp_image_undo_group_end", "", << >>),
                         Cmd("gimp_context_pop", "", << >>) >>
       IN  \/ Succeed(cmds, "done")
           \/ Fail(cmds)
    /\ UNCHANGED << yy, yyLocals >>
    /\ YinYangFrame

\* Lines 445-447 of 1.05 (407-408 of 1.02): the gradients are deleted
\* (1.05), the undo group ends, the context is restored.
render_yin_yang_cleanup ==
    /\ plugin = "yin-yang" /\ pc = "yy_cleanup"
    /\ LET delete(g) == IF version = "1.05" /\ g # NoGradient
                        THEN << Cmd("gimp_gradient_delete", g, << >>) >>
                        ELSE << >>
           cmds == delete(gradient_1) \o delete(gradient_2)
                   \o << Cmd("gimp_image_undo_group_end", "", << >>),
                         Cmd("gimp_context_pop", "", << >>) >>
       IN  \/ Succeed(cmds, "done")
           \/ Fail(cmds)
    /\ UNCHANGED << yy, yyLocals >>
    /\ YinYangFrame

YinYangStep ==
    \/ render_yin_yang_colors
    \/ render_yin_yang_image
    \/ render_yin_yang_gradients
    \/ render_yin_yang_side
    \/ render_yin_yang_rim
    \/ render_yin_yang_scale
    \/ render_yin_yang_frame
    \/ render_yin_yang_cleanup

\* ------------------------------------------------------------ yin-yang: the calls
\* the arguments of render_yin_yang that are tried
YinYangColors == { << 255, 100, 0 >>, << 0, 2, 13 >> }

\* the values of the parameter flow_color_2 that are tried
YinYangSecondColors == { << 255, 255, 255 >>, << 20, 40, 60 >> }

YinYangArgs(ver) ==
    { [ symbol_diameter |-> d, mode |-> m, flow_color_1 |-> c,
        flow_color_2 |-> c2, rim_color |-> << 128, 128, 128 >>,
        flow_pattern_1 |-> "Pine", flow_pattern_2 |-> "Marble #1",
        rim_width |-> w, eye_divisor |-> e, direction |-> dir,
        frame_count |-> f, frame_timer |-> 100 ] :
        d \in { 80, 200 }, m \in 0..(IF ver = "1.05" THEN 6 ELSE 5),
        c \in YinYangColors, c2 \in YinYangSecondColors, w \in { 0, 3 },
        e \in { 6, 7 }, dir \in 0..1,
        f \in { 1, 3, 7 } }

\* the state after the plug-in module is loaded
InitYinYang ==
    /\ version = "1.05"
    /\ yy = YYClass
    /\ yy_args = [ symbol_diameter |-> 0, mode |-> 0,
                   flow_color_1 |-> BLACK, flow_color_2 |-> BLACK,
                   rim_color |-> BLACK, flow_pattern_1 |-> "",
                   flow_pattern_2 |-> "", rim_width |-> 0, eye_divisor |-> 0,
                   direction |-> 0, frame_count |-> 0, frame_timer |-> 0 ]
    /\ flow_color_2 = BLACK
    /\ gradient_1 = NoGradient /\ gradient_2 = NoGradient
    /\ timer = 0 /\ side = 0 /\ frame = 0 /\ angle = 0 /\ rotation = 0

\* no polar derivation is under study
IdlePolar == polar_mode = 0 /\ polar_colors = << >>

\* the host calls render_yin_yang of one of the two versions
CallYinYang ==
    /\ pc = "idle"
    /\ \E ver \in { "1.02", "1.05" } :
          \E a \in YinYangArgs(ver) : render_yin_yang_call(ver, a)

\* ------------------------------------------------------------ Spec
\* The host calls one of the plug-ins once, and the call runs to its end
\* or to the failure of a host command.
Init == IdlePoint /\ IdlePolar /\ InitHost /\ InitFlower /\ InitYinYang

Next ==
    \/ CallFlower
    \/ FlowerStep
    \/ CallYinYang
    \/ YinYangStep

Spec == Init /\ [][Next]_vars

\* ------------------------------------------------------------ SpecPoint
\* get_point_on_circle as a pure function: the arguments are drawn from
\* bounded sets and the function is applied once.
PointFoci == { << 0, 0 >>, << 122 * FP, 122 * FP >>, << 602 * FP, 602 * FP >>,
               << 156641065, 102000085 >> }
PointRadii == { 1, 10, 40, 200 }

InitPoint ==
    /\ IdlePolar /\ InitHost /\ InitFlower /\ InitYinYang
    /\ gp_focus \in PointFoci
    /\ gp_angle \in Angles
    /\ gp_radius \in PointRadii
    /\ gp_point = << 0, 0 >>
    /\ gp_called = FALSE

CallPoint ==
    /\ ~gp_called
    /\ gp_point' = get_point_on_circle(gp_focus, gp_angle, gp_radius)
    /\ gp_called' = TRUE
    /\ UNCHANGED << gp_focus, gp_angle, gp_radius >>
    /\ UNCHANGED << polarVars, plugin, pc, calls, hostVars, flowerVars,
                    yyVars >>

NextPoint == CallPoint

SpecPoint == InitPoint /\ [][NextPoint]_vars

\* C1: for every focus F and radius r, get_point_on_circle(F, 0, r) is
\* exactly (F.x, F.y - r): angle zero points straight up.
C1_ZeroAngleIsUp ==
    (gp_called /\ gp_angle = 0) =>
        gp_point = << gp_focus[1], gp_focus[2] - (gp_radius * FP) >>

C1_Witness ==
    /\ gp_called
    /\ gp_angle = 0
    /\ gp_radius = 40
    /\ gp_focus = << 122 * FP, 122 * FP >>
    /\ gp_point = << 122 * FP, 82 * FP >>

\* the squared distance of the returned point from the focus
PointSquaredDistance ==
    SquaredLength(gp_point[1] - gp_focus[1], gp_point[2] - gp_focus[2])

\* C2 as claimed: the returned point lies at exactly distance r from F,
\* for every angle.
C2_ExactDistance ==
    gp_called =>
        IsZero(SubLimbs(PointSquaredDistance, SquaredRadius(gp_radius)))

\* C2 as amended: the returned point lies at distance r from F up to the
\* rounding of sin and cos (the squared distance is within 4 millionths
\* of r^2), and exactly so at angle zero.
C2_DistanceWithinRounding ==
    gp_called =>
        /\ WithinLimbs(PointSquaredDistance, SquaredRadius(gp_radius),
                       << 0, 400 * gp_radius * gp_radius, 0, 0, 0 >>)
        /\ gp_angle = 0 =>
               IsZero(SubLimbs(PointSquaredDistance, SquaredRadius(gp_radius)))

C2_Witness ==
    /\ gp_called
    /\ gp_angle = DEGREE_60
    /\ gp_radius = 40
    /\ gp_focus = << 122 * FP, 122 * FP >>
    /\ ~IsZero(SubLimbs(PointSquaredDistance, SquaredRadius(gp_radius)))

\* ------------------------------------------------------------ the rings
\* sin and cos of k * 60 degrees in millionths, k = 0..5: the corners of
\* the hexagon a ring of six circles is drawn on
HexagonSin == << 0, 866025, 866025, 0, -866025, -866025 >>
HexagonCos == << 1000000, 500000, -500000, -1000000, -500000, 500000 >>

\* draw_1st_ring or draw_2nd_ring is running its loop or has just left it
InFirstRings ==
    /\ plugin = "flower"
    /\ pc \in { "loop", "merge" }
    /\ RingFunction \in { 1, 2 }

\* the radius of the ring draw_1st_ring / draw_2nd_ring steps around
FirstRingsRadius == circle_radius * RingFunction

\* C3 as claimed: the point computed after the sixth 60-degree step of
\* draw_1st_ring / draw_2nd_ring coincides with the first point of the
\* ring.
C3_RingClosesExactly ==
    (InFirstRings /\ pc = "merge") =>
        << lx, ly >> = << Px(image_center),
                          Px(image_center - FirstRingsRadius) >>

\* C3 as amended: the i-th point of draw_1st_ring / draw_2nd_ring is
\* computed at the angle i * DEGREE_60 and lies within 0.00002 * radius
\* pixels of the i-th corner of the hexagon around the image centre (0,
\* 60, ..., 300 degrees clockwise from up); so does the point after the
\* sixth step, which is within that distance of the first point and not on
\* it.
C3_RingClosesWithinTolerance ==
    InFirstRings =>
        LET corner == (li % 6) + 1
            dx == lx - (Px(image_center) + (HexagonSin[corner] * FirstRingsRadius))
            dy == ly - (Px(image_center) - (HexagonCos[corner] * FirstRingsRadius))
        IN  /\ li \in 0..6
            /\ angle1 = li * DEGREE_60
            /\ Abs(dx) <= 20 * FirstRingsRadius
            /\ Abs(dy) <= 20 * FirstRingsRadius

C3_Witness ==
    /\ InFirstRings
    /\ pc = "merge"
    /\ RingFunction = 1
    /\ li = 6
    /\ angle1 = 6 * DEGREE_60
    /\ lx # Px(image_center)
    /\ ly = Px(image_center - circle_radius)

\* ------------------------------------------------------------ the colours
\* the sum of the j-th components of the first n colours
RECURSIVE ComponentSum(_, _, _)
ComponentSum(colors, n, j) ==
    IF n = 0 THEN 0 ELSE colors[n][j] + ComponentSum(colors, n - 1, j)

\* C5: in Random Colors mode, once the colours are drawn, each component
\* of the frame colour is the sum of that component of the 7 ring colours
\* divided by 7 and truncated, it lies in 0..255, and the frame of the
\* coloured flower is filled with that colour.
C5_FrameColorIsTruncatedMean ==
    (plugin = "flower" /\ color_mode = RANDOM_COLORS /\ pass # "none") =>
        /\ Len(ring_colors) = 7
        /\ \A j \in 1..3 :
              LET s == ComponentSum(ring_colors, 7, j)
              IN  /\ frame_color[j] \in 0..255
                  /\ 7 * frame_color[j] <= s
                  /\ s < 7 * (frame_color[j] + 1)
        /\ (pc = "rename" /\ frame_width # 0) =>
              \E k \in 1..(Len(issued) - 1) :
                  /\ issued[k] = Cmd("gimp_context_set_foreground", "",
                                     frame_color)
                  /\ issued[k + 1] = Cmd("gimp_edit_bucket_fill", "Frame",
                                         << >>)

C5_Witness ==
    /\ plugin = "flower"
    /\ color_mode = RANDOM_COLORS
    /\ pc = "rename"
    /\ frame_width # 0
    /\ frame_color # args.frame_col
    /\ \E j \in 1..3 : ComponentSum(ring_colors, 7, j) % 7 # 0

\* the drawings of a pass in their order: the centre, then ring 1 to 6
DrawingOrder == << 0, 1, 2, 3, 4, 5, 6 >>

\* the coloured pass has drawn all its rings
ColoredPassDone ==
    \/ pass = "bw"
    \/ pass = "color" /\ pc \in { "frame", "rename", "bwbase" }

\* C6: in a coloured flower render the colour assignment has exactly 7
\* entries; the centre circle is filled with ring_colors[0] and ring k
\* only with ring_colors[k]; the rings are first drawn in the order
\* centre, 1, ..., 6; and when the coloured pass is over every entry has
\* been used by its ring, and by no other ring that has a different colour.
C6_ColorsInSequence ==
    (plugin = "flower" /\ color_mode # 0 /\ pass # "none") =>
        /\ Len(ring_colors) = 7
        /\ \A k \in 0..6 : ring_fills[k] \subseteq { ring_colors[k + 1] }
        /\ Len(ring_order) <= 7
        /\ ring_order = SubSeq(DrawingOrder, 1, Len(ring_order))
        /\ ColoredPassDone =>
              /\ ring_order = DrawingOrder
              /\ \A k \in 0..6 :
                    { r \in 0..6 : ring_colors[k + 1] \in ring_fills[r] }
                        = { r \in 0..6 : ring_colors[r + 1] = ring_colors[k + 1] }

C6_Witness ==
    /\ plugin = "flower"
    /\ color_mode = 1
    /\ pc = "done"
    /\ ring_order = DrawingOrder
    /\ ring_fills[0] = { << 255, 0, 0 >> }
    /\ ring_fills[6] = { << 148, 0, 211 >> }

\* ------------------------------------------------------------ the undo group
\* C7: in every render call of the flower and the yin-yang plug-ins the
\* undo group wraps the whole operation: gimp_image_undo_group_start is
\* called once, before any command that changes the new image, and
\* gimp_image_undo_group_end once, after the last such command.
C7_UndoGroupWrapsCall ==
    /\ host.unguarded = 0
    /\ host.undo_starts <= 1
    /\ host.undo_ends <= host.undo_starts
    /\ pc = "done" =>
          /\ host.undo_starts = 1
          /\ host.undo_ends = 1
          /\ ~host.undo_open

\* ------------------------------------------------------------ failures
\* C8: the failure of a host command ends the render call: the step that
\* meets it leaves the call failed, and a failed call issues no further
\* command and takes no further step.
C8_FailureIsFatal ==
    [][ /\ host'.failures > 0 => pc' = "failed"
        /\ host.failures > 0 =>
              /\ host'.failures = host.failures
              /\ UNCHANGED << pc, ncmds, issued >> ]_vars

C8_Witness ==
    /\ pc = "failed"
    /\ host.failures = 1
    /\ host.undo_open
    /\ host.changes > 10
    /\ issued # << >>
    /\ issued[Len(issued)].op = "gimp_edit_bucket_fill"

\* ------------------------------------------------------------ the configuration
\* the configuration of the flower: the image size and centre, the radii,
\* the widths, the type and the mode, the colours
FlowerGeometry ==
    << image_size, image_center, image_focus, flower_radius, circle_radius,
       circle_diameter, frame_width, line_width, flower_type, color_mode >>

FlowerColors == << ring_colors, frame_color >>

\* render_flower has initialised its configuration (lines 646-668)
FlowerInitialised == plugin = "flower" /\ pc \notin { "idle", "setup" }

\* render_yin_yang has initialised the attributes of yy (lines 301-316)
YinYangInitialised == plugin = "yin-yang" /\ pc # "idle"

\* C10 as claimed: once render_flower or render_yin_yang has initialised
\* the configuration fields, none of them is assigned a different value
\* before the call ends.
C10_ConfigurationNeverReassigned ==
    [][ /\ FlowerInitialised => UNCHANGED << FlowerGeometry, FlowerColors >>
        /\ YinYangInitialised => UNCHANGED yy ]_vars

\* C10 as amended: after the initialisation the flower's sizes, radii,
\* widths, type and mode keep their values, and its ring colours and frame
\* colour are reassigned only by the Random Colors step; the attributes of
\* yy keep their values except image_size, which yin-yang 1.05 divides by
\* its scale when it scales the image back; flow colour 2 changes only
\* where the colours are set.
C10_ConfigurationFixedButColorsAndSize ==
    [][ /\ FlowerInitialised =>
              /\ UNCHANGED FlowerGeometry
              /\ (~ UNCHANGED FlowerColors) =>
                     /\ pc = "random"
                     /\ color_mode = RANDOM_COLORS
        /\ YinYangInitialised =>
              /\ (yy' # yy) =>
                     /\ pc = "yy_scale"
                     /\ version = "1.05"
                     /\ yy' = [yy EXCEPT !.image_size = yy.image_size \div YY_SCALE]
              /\ (flow_color_2' # flow_color_2) => pc = "yy_colors" ]_vars

C10_Witness ==
    /\ plugin = "yin-yang"
    /\ version = "1.05"
    /\ pc = "done"
    /\ yy.image_size = 81
    /\ yy.symbol_size = 320
    /\ yy.center = 162

\* ------------------------------------------------------------ SpecReinvoke
\* The host calls render_flower again and again while the module stays
\* loaded: a call may follow a call that ended or failed.
MaxCalls == 2

\* the arguments of the repeated calls
ReinvokeArgs ==
    { a \in FlowerArgs :
        /\ a.symbol_radius = 60 /\ a.line_w = 1 /\ a.frame_w = 0
        /\ a.frame_col = << 0, 77, 0 >>
        /\ << a.mode, a.flower_part >>
               \in { << 0, CIRCLES >>, << 1, LINES >>, << 2, PETALS >> } }

ReinvokeFlower ==
    /\ pc \in { "idle", "done", "failed" }
    /\ calls < MaxCalls
    /\ \E a \in ReinvokeArgs : render_flower_call(a)

NextReinvoke ==
    \/ ReinvokeFlower
    \/ FlowerStep

SpecReinvoke == Init /\ [][NextReinvoke]_vars

\* C9: every entry of ring_center and extra_ring that a render_flower call
\* reads (in draw_4th_ring, draw_6th_ring, create_bw_alpha) was written
\* earlier in that same call, whatever the calls before it left in the
\* arrays; and the entry read holds a point.
C9_ReadsFollowWritesOfTheCall ==
    /\ ~stale_read
    /\ (plugin = "flower" /\ ring_order # << >>) =>
          \A i \in rc_written : ring_center[i + 1] # NoPoint
    /\ \A i \in er_written : extra_ring[i + 1] # NoPoint

C9_Witness ==
    /\ plugin = "flower"
    /\ calls = 2
    /\ pc = "done"
    /\ rc_written = 0..5
    /\ er_written = 0..11
    /\ ~stale_read

\* ------------------------------------------------------------ SpecPolar
\* The polar derivation as a pure function: a mode and a colour are drawn
\* from bounded sets and the derivation is applied to its own result.
PolarComponents == { 0, 1, 2, 13, 100, 127, 128, 155, 254, 255 }

PolarModes == { YY_POLAR_HUE, YY_POLAR_LIGHTNESS, YY_POLAR_SATURATION }

InitPolar ==
    /\ IdlePoint /\ InitHost /\ InitFlower /\ InitYinYang
    /\ polar_mode \in PolarModes
    /\ polar_colors \in { << << r, g, b >> >> :
                            r \in PolarComponents, g \in PolarComponents,
                            b \in PolarComponents }

DerivePolar ==
    /\ Len(polar_colors) < 3
    /\ \E ulps \in Ulps :
          polar_colors' =
              Append(polar_colors,
                     polar_color(PolarKind("1.05", polar_mode),
                                 polar_colors[Len(polar_colors)], ulps))
    /\ UNCHANGED << polar_mode, pointVars, plugin, pc, calls, hostVars,
                    flowerVars, yyVars >>

NextPolar == DerivePolar

SpecPolar == InitPolar /\ [][NextPolar]_vars

\* the largest difference between a component of the colour given and the
\* same component of the colour derived twice
PolarDeviation ==
    LET c == polar_colors[1]
        e == polar_colors[3]
        D(j) == Abs(c[j] - e[j])
    IN  IF D(1) >= D(2) /\ D(1) >= D(3) THEN D(1)
        ELSE IF D(2) >= D(3) THEN D(2) ELSE D(3)

\* C4 as claimed: the Polar Hue, Polar Lightness and Polar Saturation
\* derivations are involutive: applied to its own result, each returns
\* the colour given, every component within 2 of the original.
C4_PolarInvolutive ==
    Len(polar_colors) = 3 => PolarDeviation <= 2

\* C4 as amended: the Polar Hue and Polar Lightness derivations are
\* involutive, every component within 2 of the original; the Polar
\* Saturation derivation is not: what it makes of a dark colour with a
\* component 0 is a grey, and what it makes of a dark grey is a red.
C4_HueAndLightnessInvolutive ==
    /\ (Len(polar_colors) = 3
           /\ polar_mode \in { YY_POLAR_HUE, YY_POLAR_LIGHTNESS }) =>
          PolarDeviation <= 2
    /\ (Len(polar_colors) >= 2 /\ polar_mode = YY_POLAR_SATURATION) =>
          LET c == polar_colors[1]
              e == polar_colors[2]
          IN  /\ (Min3(c) = 0 /\ Max3(c) > 0 /\ Max3(c) <= 255 - Min3(c)) =>
                     e[1] = e[2] /\ e[2] = e[3]
              /\ (c[1] = c[2] /\ c[2] = c[3] /\ c[1] \in 1..127) =>
                     e[1] > 0 /\ e[2] = 0 /\ e[3] = 0

C4_Witness ==
    /\ Len(polar_colors) = 3
    /\ polar_mode = YY_POLAR_HUE
    /\ polar_colors[1] = << 0, 0, 2 >>
    /\ PolarDeviation = 2

\* ------------------------------------------------------------ the sides
\* the side whose commands the last step issued (0 or 1); 2 when the last
\* step drew no side
SideDrawn ==
    IF plugin = "yin-yang" /\ pc = "yy_side" /\ side = 1 THEN 0
    ELSE IF plugin = "yin-yang" /\ pc = "yy_rim" /\ side = 2 THEN 1
    ELSE 2

\* the selection commands of a side, in the order claimed
SelectionOps ==
    << << "gimp_image_select_ellipse", "CHANNEL_OP_REPLACE" >>,
       << "gimp_image_select_rectangle", "CHANNEL_OP_SUBTRACT" >>,
       << "gimp_image_select_ellipse", "CHANNEL_OP_ADD" >>,
       << "gimp_image_select_ellipse", "CHANNEL_OP_SUBTRACT" >>,
       << "gimp_image_select_ellipse", "CHANNEL_OP_SUBTRACT" >>,
       << "gimp_image_select_ellipse", "CHANNEL_OP_ADD" >> >>

FillOps == { "gimp_edit_bucket_fill", "gimp_drawable_edit_gradient_fill" }

SelectOps == { "gimp_image_select_ellipse", "gimp_image_select_rectangle" }

\* the commands issued are the six selections, then one fill, and the two
\* eyes are at mirrored vertical offsets from the centre
SideSequence ==
    /\ Len(issued) > 6
    /\ \A k \in 1..6 : << issued[k].op, issued[k].name >> = SelectionOps[k]
    /\ issued[Len(issued)].op \in FillOps
    /\ \A k \in 7..(Len(issued) - 1) : issued[k].op \notin FillOps \cup SelectOps
    /\ issued[1].a[3] = Px(yy.flow_size)
    /\ issued[5].a[2] + issued[6].a[2] + yy.eye_diameter = 2 * Px(yy.center)
    /\ issued[5].a[2] # issued[6].a[2]

\* the circle of command c lies between the top and the bottom of the flow
\* circle (the first command issued)
InFlowCircle(c) ==
    /\ c.a[2] >= issued[1].a[2]
    /\ c.a[2] + c.a[4] <= issued[1].a[2] + issued[1].a[4]

\* the centre of the circle of c is above (below) the centre of the flow
\* circle
InTopHalf(c) ==
    InFlowCircle(c) /\ (2 * c.a[2]) + c.a[4] < (2 * issued[1].a[2]) + issued[1].a[4]

InBottomHalf(c) ==
    InFlowCircle(c) /\ (2 * c.a[2]) + c.a[4] > (2 * issued[1].a[2]) + issued[1].a[4]

\* C11: each side is built by the six selection commands in the fixed
\* order (flow circle, half-plane, head added, tail subtracted, eye
\* subtracted, eye added at the mirrored offset) and one fill, and the
\* head and tail circles of the side lie in the flow circle, one in its
\* top half and the other in its bottom half.
C11_SidesBuiltInFlowCircle ==
    SideDrawn \in { 0, 1 } =>
        /\ SideSequence
        /\ \/ InTopHalf(issued[3]) /\ InBottomHalf(issued[4])
           \/ InTopHalf(issued[4]) /\ InBottomHalf(issued[3])

\* C12: the second side mirrors the first.  When the step that draws side 1
\* follows the one that drew side 0, the head of side 1 is where the tail
\* of side 0 was and its tail where the head was, its subtracted eye where
\* the added eye was and the other way round, and the rectangle removed for
\* side 0 is the left half, from 0 to the centre, that for side 1 the right
\* half, starting at the centre.
C12_SecondSideMirrorsFirst ==
    [][ (SideDrawn = 0 /\ pc' = "yy_rim") =>
            /\ issued'[3].a = issued[4].a
            /\ issued'[4].a = issued[3].a
            /\ issued'[5].a = issued[6].a
            /\ issued'[6].a = issued[5].a
            /\ issued[3].a # issued[4].a
            /\ issued[5].a # issued[6].a
            /\ issued[2].a = << 0, 0, Px(yy.center), Px(yy.image_size) >>
            /\ issued'[2].a = << Px(yy.center), 0, Px(yy.center),
                                 Px(yy.image_size) >>
            /\ \A k \in 1..6 :
                  << issued'[k].op, issued'[k].name >> = SelectionOps[k]
      ]_vars

\* side 1 of a yin-yang 1.05 with a rim has been drawn: its head is at
\* flow_offset, its tail at the centre
C12_Witness ==
    /\ SideDrawn = 1
    /\ version = "1.05" /\ yy_args.rim_width = 3 /\ yy_args.symbol_diameter = 80
    /\ issued[3].a = << Px(162) - yy.head_radius, Px(5), yy.head_diameter,
                        yy.head_diameter >>
    /\ issued[4].a[2] = Px(162)
    /\ issued[2].a[1] = Px(162)

\* ------------------------------------------------------------ the colours of the sides
\* render_yin_yang has set its colours and has not failed
YinYangColored ==
    plugin = "yin-yang" /\ pc \notin { "idle", "yy_colors", "failed" }

\* the colour a side was filled with: the foreground set before the fill
\* of the commands issued
FilledWith(c) ==
    \E k \in 7..(Len(issued) - 1) :
        /\ issued[k] = Cmd("gimp_context_set_foreground", "", c)
        /\ issued[k + 1].op = "gimp_edit_bucket_fill"

\* C13: in yin-yang 1.05 the colour of side 1 is the parameter
\* flow_color_2 in the Solid, Gradient and Pattern modes, the RGB
\* complement of flow_color_1 in the Polar Color mode, and the polar
\* colour of flow_color_1 in the Polar Hue, Lightness and Saturation
\* modes, whatever the parameter flow_color_2 is; side 0 is filled with
\* flow_color_1.  In the Gradient mode the colours are those of the two
\* gradients: the first runs from flow_color_1 to flow colour 2, the second
\* back.
C13_SecondColorByMode ==
    (YinYangColored /\ version = "1.05") =>
        LET c1 == yy_args.flow_color_1
        IN  /\ yy.mode \in { 0, YY_GRADIENT, YY_PATTERN } =>
                  flow_color_2 = yy_args.flow_color_2
            /\ yy.mode = YY_INVERTED_COLOR =>
                  flow_color_2 = << 255 - c1[1], 255 - c1[2], 255 - c1[3] >>
            /\ yy.mode = YY_POLAR_HUE =>
                  \E u \in Ulps : flow_color_2 = polar_color("hue", c1, u)
            /\ yy.mode = YY_POLAR_LIGHTNESS =>
                  \E u \in Ulps : flow_color_2 = polar_color("lightness", c1, u)
            /\ yy.mode = YY_POLAR_SATURATION =>
                  \E u \in Ulps : flow_color_2 = polar_color("saturation", c1, u)
            /\ (SideDrawn = 0 /\ yy.mode # YY_GRADIENT) => FilledWith(c1)
            /\ (SideDrawn = 1 /\ yy.mode # YY_GRADIENT) => FilledWith(flow_color_2)
            /\ (pc = "yy_side" /\ side = 0 /\ yy.mode = YY_GRADIENT) =>
                  /\ issued[3].a = c1 /\ issued[2].a = flow_color_2
                  /\ issued[8].a = flow_color_2 /\ issued[7].a = c1
            /\ (SideDrawn = 1 /\ yy.mode = YY_GRADIENT) =>
                  issued[7] = Cmd("gimp_context_set_gradient", GradientName(2), << >>)

\* side 1 of a Polar Color symbol was filled with the complement of flow
\* colour 1 although the dialog's flow colour 2 was another colour
C13_Witness ==
    /\ SideDrawn = 1 /\ version = "1.05" /\ yy.mode = YY_INVERTED_COLOR
    /\ yy_args.flow_color_1 = << 255, 100, 0 >>
    /\ yy_args.flow_color_2 = << 20, 40, 60 >>
    /\ FilledWith(<< 0, 155, 255 >>)

\* C14: in yin-yang 1.02 the mode of menu index 3, "Flow Color 1 and Polar
\* Lightness", makes flow colour 2 the colour flow_color_1 with its
\* lightness inverted and its hue and saturation kept.
C14_PolarLightnessOfVersion102 ==
    (YinYangColored /\ version = "1.02" /\ yy.mode = 3) =>
        \E u \in Ulps :
            flow_color_2 = polar_color("lightness", yy_args.flow_color_1, u)

\* ------------------------------------------------------------ the rim
\* the last step was the one that draws the rim (lines 385-404 of 1.05)
RimStepDone ==
    /\ plugin = "yin-yang"
    /\ IF version = "1.05" THEN pc = "yy_scale"
       ELSE \/ pc = "yy_frames" /\ frame = 0
            \/ pc = "yy_cleanup" /\ yy_args.frame_count <= 1

\* the rim width and the symbol size at the scale the version draws at
ScaledRim == yy_args.rim_width * ScaleOf(version)
ScaledSymbol == yy_args.symbol_diameter * ScaleOf(version)

\* C15: the rim is skipped when its width is zero and drawn otherwise.
\* With rim width 0 the rim step issues no selection and no fill, and the
\* flow circle has the size of the symbol; with rim width w > 0 the step
\* selects the symbol circle, subtracts the flow circle, which is w (at the
\* scale of the drawing) inside it on every side, and fills once with the
\* rim colour; the flow diameter is the symbol's less twice the scaled w.
C15_RimDrawnIffWidth ==
    /\ (plugin = "yin-yang" /\ pc \notin { "idle", "failed" }) =>
          yy.flow_size = ScaledSymbol - (2 * ScaledRim)
    /\ SideDrawn \in { 0, 1 } =>
          issued[1].a = << Px(FRAME_WIDTH_INT + ScaledRim),
                           Px(FRAME_WIDTH_INT + ScaledRim),
                           Px(ScaledSymbol - (2 * ScaledRim)),
                           Px(ScaledSymbol - (2 * ScaledRim)) >>
    /\ (RimStepDone /\ yy_args.rim_width = 0) =>
          \A k \in 1..Len(issued) :
              issued[k].op \notin FillOps \cup SelectOps
                                  \cup { "gimp_context_set_foreground" }
    /\ (RimStepDone /\ yy_args.rim_width > 0) =>
          /\ Len(issued) >= 4
          /\ issued[1] = SelectEllipse("CHANNEL_OP_REPLACE",
                                       Px(FRAME_WIDTH_INT), Px(FRAME_WIDTH_INT),
                                       Px(ScaledSymbol), Px(ScaledSymbol))
          /\ issued[2] = SelectEllipse("CHANNEL_OP_SUBTRACT",
                                       Px(FRAME_WIDTH_INT + ScaledRim),
                                       Px(FRAME_WIDTH_INT + ScaledRim),
                                       Px(ScaledSymbol - (2 * ScaledRim)),
                                       Px(ScaledSymbol - (2 * ScaledRim)))
          /\ issued[3] = Cmd("gimp_context_set_foreground", "",
                             yy_args.rim_color)
          /\ issued[4].op = "gimp_edit_bucket_fill"
          /\ \A k \in 5..Len(issued) : issued[k].op \notin FillOps \cup SelectOps

\* the rim of a yin-yang 1.05 of diameter 80 and rim width 3 was filled
C15_Witness ==
    /\ RimStepDone /\ version = "1.05"
    /\ yy_args.rim_width = 3 /\ yy_args.symbol_diameter = 80
    /\ issued[2].a = << Px(14), Px(14), Px(296), Px(296) >>
    /\ issued[4].op = "gimp_edit_bucket_fill"
    /\ host.foreground = << 128, 128, 128 >>

\* ------------------------------------------------------------ the frames
\* the last step made the copy number frame of the base layer
FrameStepDone ==
    plugin = "yin-yang" /\ frame >= 1 /\ pc \in { "yy_frames", "yy_cleanup" }

\* 360 / f degrees, negated when the direction is counter-clockwise (1)
FrameStep ==
    ((360 * FP) \div yy_args.frame_count)
        * (IF yy_args.direction = 1 THEN -1 ELSE 1)

\* C16: with f = 1 the image ends with one layer and nothing is rotated;
\* with f > 1 it ends with f layers, the base and f - 1 copies, and the
\* k-th copy is rotated by k * (360 / f) degrees, negated when the
\* direction is counter-clockwise, modulo 360.
C16_FramesAndRotations ==
    /\ FrameStepDone =>
          LET a == angle - rotation
          IN  /\ yy_args.frame_count > 1
              /\ (a - (frame * FrameStep)) % (360 * FP) = 0
              /\ host.rotations = frame
              /\ host.layers = frame + 1
              /\ \E k \in 1..Len(issued) :
                    /\ issued[k].op = "gimp_item_transform_rotate"
                    /\ issued[k].a[1] = Radians(a)
    /\ (plugin = "yin-yang" /\ pc = "done") =>
          /\ host.layers = yy_args.frame_count
          /\ host.rotations = yy_args.frame_count - 1
          /\ frame = yy_args.frame_count - 1

\* a counter-clockwise animation of 7 frames has ended: 7 layers, 6
\* rotations, the last by -6 * (360 / 7) degrees, which is 51.43 degrees
\* modulo 360
C16_Witness ==
    /\ plugin = "yin-yang" /\ pc = "done"
    /\ yy_args.frame_count = 7 /\ yy_args.direction = 1
    /\ host.layers = 7 /\ host.rotations = 6
    /\ angle - rotation = (360 * FP) + (6 * FrameStep)

\* ------------------------------------------------------------ the gradients
\* C17: in flower 1.01 and yin-yang 1.05 the gradients a call creates are
\* deleted before it ends: at the end of the call every gradient created
\* has been deleted, once; yin-yang creates gradients only in the Gradient
\* mode; and every gradient fill uses a gradient created earlier in the
\* call and not yet deleted.
C17_GradientsDeleted ==
    (plugin = "flower" \/ (plugin = "yin-yang" /\ version = "1.05")) =>
        /\ host.absent_fills = 0
        /\ host.absent_deletes = 0
        /\ pc = "done" =>
              /\ host.gradients = { }
              /\ host.gradient_deletes = host.gradient_news
        /\ (plugin = "yin-yang" /\ yy_args.mode # YY_GRADIENT) =>
              host.gradient_news = 0
        /\ (plugin = "yin-yang" /\ yy_args.mode = YY_GRADIENT
                /\ pc \in { "yy_side", "yy_rim", "yy_scale", "yy_frames",
                            "yy_cleanup" }) =>
              host.gradients = { GradientName(1), GradientName(2) }

\* a yin-yang 1.05 in Gradient mode has ended: two gradients were created,
\* both sides were filled with them, and both are deleted
C17_Witness ==
    /\ plugin = "yin-yang" /\ version = "1.05" /\ pc = "done"
    /\ yy_args.mode = YY_GRADIENT
    /\ host.gradient_news = 2 /\ host.gradient_deletes = 2
    /\ host.gradients = { } /\ host.gradient = GradientName(2)

\* ------------------------------------------------------------ the colours of the dialog
\* the colours a command carries
ColorsOf(c) ==
    IF c.op = "gimp.message"
    THEN { << c.a[(3 * i) - 2], c.a[(3 * i) - 1], c.a[3 * i] >> :
              i \in 1..(Len(c.a) \div 3) }
    ELSE IF c.op \in { "gimp_context_set_foreground", "plug_in_colortoalpha",
                       "gimp_image_select_color",
                       "gimp_gradient_segment_set_right_color",
                       "gimp_gradient_segment_set_left_color" }
    THEN { c.a }
    ELSE { }

\* the colours the last step sent to the host
IssuedColors == UNION { ColorsOf(issued[k]) : k \in 1..Len(issued) }

\* the colours of the dialog: color1 .. color7 and frame_color
DialogColors ==
    { args.colors[i] : i \in 1..Len(args.colors) } \cup { args.frame_col }

\* the number of host commands of a complete call in the modes that do not
\* use the dialog's colours, by mode, type and whether there is a frame
CommandsWithoutColors(m, t, framed) ==
    (IF m = 0
     THEN (CASE t = LINES -> 433 [] t = PETALS -> 382 [] OTHER -> 380)
     ELSE (CASE t = LINES -> 857 [] t = PETALS -> 753 [] OTHER -> 751))
    + (IF ~framed THEN 0 ELSE IF m = 0 THEN 16 ELSE 24)

\* C18: the dialog's colours are ignored unless the mode is Preset Color.
\* In Black And White mode every colour sent to the host is BLACK or
\* WHITE; in Black And White and Random Color modes no command carries a
\* colour of the dialog, the colours are those drawn by the generator and
\* their mean, and the number of commands of the call is the same whatever
\* the dialog's colours are.
C18_DialogColorsIgnored ==
    (plugin = "flower" /\ color_mode # 1 /\ pc # "idle") =>
        /\ IssuedColors \cap (DialogColors \ { BLACK, WHITE }) = { }
        /\ color_mode = 0 => IssuedColors \subseteq { BLACK, WHITE }
        /\ (color_mode = RANDOM_COLORS /\ pass # "none") =>
              /\ \E seed \in RandomSeeds :
                    ring_colors = [i \in 1..RING_COLORS_COUNT |->
                                      << RandInt(seed, 3 * (i - 1)),
                                         RandInt(seed, (3 * (i - 1)) + 1),
                                         RandInt(seed, (3 * (i - 1)) + 2) >>]
              /\ IssuedColors \subseteq
                    { BLACK, WHITE, frame_color }
                        \cup { ring_colors[i] : i \in 1..RING_COLORS_COUNT }
        /\ pc = "done" =>
              ncmds = CommandsWithoutColors(color_mode, flower_type,
                                            frame_width # 0)

\* a Random Color flower of lines with a frame has ended; it was called
\* with the rainbow colours and none of them reached the host
C18_Witness ==
    /\ plugin = "flower" /\ pc = "done" /\ color_mode = RANDOM_COLORS
    /\ args.colors[1] = << 255, 0, 0 >> /\ args.frame_col = << 10, 20, 30 >>
    /\ ring_colors[1] # << 255, 0, 0 >>
    /\ flower_type = LINES /\ frame_width # 0
    /\ ncmds = 881

\* ------------------------------------------------------------ the message
\* the colours of a message, one after the other
FlatColors(colors) ==
    [k \in 1..(3 * Len(colors)) |-> colors[((k - 1) \div 3) + 1][((k - 1) % 3) + 1]]

\* C19: a call in Preset or Random mode that ends has shown one message,
\* on the error console, listing the 7 ring colours in ring order: the
\* colours the centre and the rings 1..6 were filled with (in Random mode
\* the generated ones); a Black And White call shows no message; and
\* after info_msg the host has the message handler it had before.  (A
\* call that fails has shown at most one message.)
C19_ColorsMessage ==
    plugin = "flower" =>
        /\ Len(host.messages) <= 1
        /\ color_mode = 0 => host.messages = << >>
        /\ pc \notin { "scale", "done", "failed" } => host.messages = << >>
        /\ (pc \in { "scale", "done" } /\ color_mode # 0) =>
              /\ host.messages = << FlatColors(ring_colors) >>
              /\ Len(ring_colors) = RING_COLORS_COUNT
              /\ \A r \in 0..6 : ring_fills[r] = { ring_colors[r + 1] }
              /\ color_mode = 1 => ring_colors = args.colors
        /\ pc \in { "scale", "done" } => host.handler = "current_handler"
        /\ \A k \in 1..Len(issued) :
              (issued[k].op = "gimp.message" /\ pc # "failed") =>
                  /\ k > 2 /\ k < Len(issued)
                  /\ issued[k - 2].op = "gimp_message_get_handler"
                  /\ issued[k - 1] =
                        Cmd("gimp_message_set_handler", "ERROR_CONSOLE", << >>)
                  /\ issued[k + 1].op = "gimp_message_set_handler"

\* a Random Color call has ended: its message lists the generated colours,
\* not the dialog's
C19_Witness ==
    /\ plugin = "flower" /\ pc = "done" /\ color_mode = RANDOM_COLORS
    /\ Len(host.messages) = 1
    /\ host.messages[1] = FlatColors(ring_colors)
    /\ host.messages[1] # FlatColors(args.colors)
    /\ ring_fills[3] = { ring_colors[4] }
    /\ ring_colors[4] # WHITE
    /\ host.handler = "current_handler"

\* ------------------------------------------------------------ SpecRanges
\* The plug-ins called at the ends of the ranges their dialogs allow
\* (register, lines 806-886 of the flower and 483-568 of yin-yang 1.05):
\* the smallest symbols with the widest lines, frames and rims, where the
\* sizes are the smallest, and larger symbols.  Sizes are kept below 2000
\* pixels, which is what the fixed-point numbers of the model can hold.
RangeFlowerArgs ==
    { [ symbol_radius |-> r, mode |-> m, flower_part |-> t,
        colors |-> << << 0, 255, 0 >>, << 0, 230, 0 >>, << 0, 204, 0 >>,
                      << 0, 179, 0 >>, << 0, 153, 0 >>, << 0, 128, 0 >>,
                      << 0, 102, 0 >> >>,
        line_w |-> l, frame_w |-> f, frame_col |-> << 0, 77, 0 >> ] :
        r \in { 60, 250 }, m \in 0..2, t \in { LINES, PETALS, CIRCLES },
        l \in { 1, 20 }, f \in { 0, 100 } }

RangeYinYangArgs(ver) ==
    { [ symbol_diameter |-> d, mode |-> m, flow_color_1 |-> << 255, 100, 0 >>,
        flow_color_2 |-> << 20, 40, 60 >>, rim_color |-> << 128, 128, 128 >>,
        flow_pattern_1 |-> "Pine", flow_pattern_2 |-> "Marble #1",
        rim_width |-> w, eye_divisor |-> e, direction |-> dir,
        frame_count |-> f, frame_timer |-> 100 ] :
        d \in { 80, IF ver = "1.05" THEN 500 ELSE 1000 },
        m \in { 0, YY_GRADIENT }, w \in { 0, 20 }, e \in { 6, 25 },
        dir \in 0..1, f \in { 1, 60 } }

CallRangeFlower ==
    /\ pc = "idle"
    /\ \E a \in RangeFlowerArgs : render_flower_call(a)

CallRangeYinYang ==
    /\ pc = "idle"
    /\ \E ver \in { "1.02", "1.05" } :
          \E a \in RangeYinYangArgs(ver) : render_yin_yang_call(ver, a)

NextRanges ==
    \/ CallRangeFlower
    \/ FlowerStep
    \/ CallRangeYinYang
    \/ YinYangStep

SpecRanges == Init /\ [][NextRanges]_vars

\* the sizes a command gives the host: the width and height of a selection
SizesOf(c) ==
    IF c.op \in SelectOps THEN { c.a[3], c.a[4] } ELSE { }

\* C20: inside the ranges of the dialogs the geometry has no error path.
\* Every divisor is positive (the eye divisor; the frame count where the
\* frames are made), every width and height of an ellipse or rectangle
\* selected is strictly positive, among them the inner circle of a line
\* (circle_diameter - line_width) and the flow circle (the symbol less the
\* rim on both sides), and the eye is not larger than the head.
C20_GeometryInRange ==
    /\ \A k \in 1..Len(issued) : \A s \in SizesOf(issued[k]) : s > 0
    /\ (plugin = "flower" /\ pc \notin { "idle", "setup", "failed" }) =>
          /\ circle_radius > 0
          /\ circle_diameter - line_width > 0
          /\ image_size > 0 /\ scale_size > 0
          /\ image_center - flower_radius - frame_width > 0
    /\ (plugin = "yin-yang" /\ pc \notin { "idle", "failed" }) =>
          /\ yy_args.eye_divisor > 0
          /\ pc = "yy_frames" => yy_args.frame_count > 1
          /\ yy.flow_size > 0
          /\ yy.head_diameter > 0 /\ yy.eye_diameter > 0
          /\ yy.eye_diameter <= yy.head_diameter
          /\ yy.image_size > 0

\* the smallest yin-yang with the widest rim and the largest eye: the
\* first side is drawn with a flow circle of 40 pixels (at four times the
\* size in 1.05), a head of 80 and an eye of 53.3
C20_Witness ==
    /\ SideDrawn = 0 /\ version = "1.05"
    /\ yy_args.symbol_diameter = 80 /\ yy_args.rim_width = 20
    /\ yy_args.eye_divisor = 6
    /\ yy.flow_size = 160
    /\ issued[3].a[3] = Px(80)
    /\ issued[5].a[3] = 53333332

\* ------------------------------------------------------------ the reads of extra_ring
\* the loop headers of the p-th read of extra_ring in a pass over
\* draw_6th_ring: k = 0, 2, 4, 6, 8, 10 and, for each, i = 0, 1, 2
ReadK(p) == 2 * (((p - 1) % 18) \div 3)
ReadI(p) == ((p - 1) % 18) % 3

\* C21: every index draw_6th_ring reads extra_ring at is within 0..11 and
\* is (k + i) mod 12 for the k and i of the loop headers, in the order
\* k = 0, 2, 4, 6, 8, 10 and i = 0, 1, 2; the index differs from k + i
\* only for k = 10, i = 2, where it is 0; a pass reads 18 times
C21_PerimeterIndices ==
    /\ Len(er_read) <= 36
    /\ \A p \in 1..Len(er_read) :
          LET e == er_read[p]
          IN  /\ e.k = ReadK(p) /\ e.i = ReadI(p)
              /\ e.n \in 0..11
              /\ e.n = (e.k + e.i) % 12
              /\ (e.n # e.k + e.i) <=> (e.k = 10 /\ e.i = 2)
    /\ (plugin = "flower" /\ pc = "merge" /\ RingFunction = 6) =>
          Len(er_read) \in { 18, 36 }

C21_Witness ==
    /\ plugin = "flower" /\ pc = "merge" /\ RingFunction = 6
    /\ Len(er_read) = 18
    /\ er_read[18] = [k |-> 10, i |-> 2, n |-> 0]
    /\ er_read[17].n = 11

\* ------------------------------------------------------------ the perimeter
\* the first loop of draw_6th_ring has written extra_ring in this call
PerimeterBuilt == plugin = "flower" /\ er_written = 0..11

\* the circles draw_2nd_ring has drawn, in the order drawn
IsSecondRing(c) == c.ring = 2
SecondRing == SelectSeq(circles, IsSecondRing)

\* a point relative to the image centre, in whole pixels
FromCenter(p) ==
    << (p[1] - Px(image_center)) \div FP, (p[2] - Px(image_center)) \div FP >>

\* q is clockwise of p as seen from the image centre (y grows downwards)
ClockwiseOf(p, q) ==
    (FromCenter(p)[1] * FromCenter(q)[2])
        - (FromCenter(p)[2] * FromCenter(q)[1]) > 0

\* the centre of the ellipse a select command selects
EllipseCentre(c) == << c.a[1] + (c.a[3] \div 2), c.a[2] + (c.a[4] \div 2) >>

\* extra_ring after the first loop of draw_6th_ring, but for the even
\* entries: the odd entries are the ring-3 centres, the 12 entries are
\* pairwise distinct and go clockwise from the top, and the 12 ellipses
\* create_bw_alpha has added to its selection are centred on them
PerimeterOrder ==
    /\ \A i \in 0..5 : extra_ring[(2 * i) + 2] = ring_center[i + 1]
    /\ \A i, j \in 1..12 : i # j => extra_ring[i] # extra_ring[j]
    /\ Abs(extra_ring[1][1] - Px(image_center)) <= 20 * circle_radius
    /\ extra_ring[1][2] < Px(image_center)
    /\ \A i \in 1..12 : ClockwiseOf(extra_ring[i], extra_ring[(i % 12) + 1])
    /\ (pc \in { "alpha_perimeter", "alpha_center" } /\ li >= 1) =>
          /\ issued # << >>
          /\ issued[Len(issued)].op = "gimp_image_select_ellipse"
          /\ Len(host.selection) = li
          /\ \A n \in 1..li :
                EllipseCentre(host.selection[n]) = extra_ring[n]

\* C22 as claimed: after the first loop of draw_6th_ring each even entry
\* extra_ring[2i] coincides with the centre of the i-th circle of ring 2,
\* each odd entry is ring_center[i], and the 12 entries are distinct, go
\* clockwise from the top and are the ones create_bw_alpha selects.
C22_PerimeterCoincides ==
    PerimeterBuilt =>
        /\ PerimeterOrder
        /\ Len(SecondRing) >= 6
        /\ \A i \in 0..5 :
              extra_ring[(2 * i) + 1]
                  = << SecondRing[i + 1].x, SecondRing[i + 1].y >>

\* C22 as amended: each even entry extra_ring[2i] lies within 0.00001 *
\* circle_radius pixels of the centre of the i-th circle of ring 2 and
\* within 0.00004 * circle_radius pixels of the point at distance 2 *
\* circle_radius and angle i * 60 degrees from the image centre; each odd
\* entry is ring_center[i]; the 12 entries are distinct, go clockwise from
\* the top and are the ones create_bw_alpha selects.
C22_PerimeterWithinTolerance ==
    PerimeterBuilt =>
        /\ PerimeterOrder
        /\ Len(SecondRing) >= 6
        /\ \A i \in 0..5 :
              LET e == extra_ring[(2 * i) + 1]
                  c == SecondRing[i + 1]
                  hx == Px(image_center)
                            + (HexagonSin[i + 1] * 2 * circle_radius)
                  hy == Px(image_center)
                            - (HexagonCos[i + 1] * 2 * circle_radius)
              IN  /\ Abs(e[1] - c.x) <= 10 * circle_radius
                  /\ Abs(e[2] - c.y) <= 10 * circle_radius
                  /\ Abs(e[1] - hx) <= 40 * circle_radius
                  /\ Abs(e[2] - hy) <= 40 * circle_radius

C22_Witness ==
    /\ PerimeterBuilt
    /\ pc = "alpha_center"
    /\ Len(host.selection) = 12
    /\ extra_ring[1] # << SecondRing[1].x, SecondRing[1].y >>
    /\ extra_ring[2] = ring_center[1]

\* ------------------------------------------------------------ SpecFrames
\* The host calls render_yin_yang of either version with every frame
\* count of the dialog above 1 (the spinner goes from 1 to 60 in steps of
\* 1) and both directions, in the solid and the gradient mode.
FramesYinYangArgs ==
    { [ symbol_diameter |-> 80, mode |-> m, flow_color_1 |-> << 255, 100, 0 >>,
        flow_color_2 |-> << 20, 40, 60 >>, rim_color |-> << 128, 128, 128 >>,
        flow_pattern_1 |-> "Pine", flow_pattern_2 |-> "Marble #1",
        rim_width |-> 3, eye_divisor |-> 6, direction |-> dir,
        frame_count |-> f, frame_timer |-> 100 ] :
        m \in { 0, YY_GRADIENT }, dir \in 0..1, f \in 2..60 }

CallFramesYinYang ==
    /\ pc = "idle"
    /\ \E ver \in { "1.02", "1.05" } :
          \E a \in FramesYinYangArgs : render_yin_yang_call(ver, a)

NextFrames ==
    \/ CallFramesYinYang
    \/ YinYangStep

SpecFrames == Init /\ [][NextFrames]_vars

\* 180 degrees, and 180 degrees the other way, in the units the rotate
\* command is given (micro-radians, rounded down)
HalfTurn == Radians(180 * FP)
HalfTurnBack == Radians(0 - (180 * FP))

\* C23: every angle passed to gimp_item_transform_rotate in the frame loop
\* lies within [-180, 180] degrees, for every frame count 2..60 and both
\* directions, after any number of iterations: the angle of the iteration
\* done last is the one the command was given, and the layer is named
\* after its whole degrees.
C23_RotationsWithinBounds ==
    /\ plugin = "yin-yang" =>
          \A k \in 1..Len(issued) :
              /\ issued[k].op = "gimp_item_transform_rotate" =>
                    /\ issued[k].a[1] >= HalfTurnBack
                    /\ issued[k].a[1] <= HalfTurn
              /\ issued[k].op = "layer.name" =>
                    /\ issued[k].a[1] >= -180 /\ issued[k].a[1] <= 180
    /\ FrameStepDone =>
          LET a == angle - rotation
          IN  /\ a >= 0 - (180 * FP) /\ a <= 180 * FP
              /\ \E k \in 1..Len(issued) :
                    /\ issued[k].op = "gimp_item_transform_rotate"
                    /\ issued[k].a[1] = Radians(a)

\* the 31st copy of a clockwise animation of 60 frames: 31 * 6 = 186
\* degrees, passed to the host as -174
C23_Witness ==
    /\ FrameStepDone
    /\ yy_args.frame_count = 60 /\ yy_args.direction = 0
    /\ frame = 31
    /\ angle - rotation = 0 - (174 * FP)
    /\ \E k \in 1..Len(issued) :
          /\ issued[k].op = "gimp_item_transform_rotate"
          /\ issued[k].a[1] = Radians(0 - (174 * FP))

\* ------------------------------------------------------------ the selection
\* the channel operations that build one circle (an annulus in the Lines
\* type), the frame, and the mask of create_bw_alpha (the 12 perimeter
\* circles, the centre ellipse and the circle of draw_circle_selection)
Annulus == << "CHANNEL_OP_ADD", "CHANNEL_OP_SUBTRACT" >>
CircleShape == IF flower_type = LINES THEN Annulus ELSE << "CHANNEL_OP_ADD" >>
MaskShape == [n \in 1..14 |-> "CHANNEL_OP_ADD"]

\* C24: in render_flower the selection is empty whenever
\* draw_flower_circle, draw_frame or create_bw_alpha starts adding to it,
\* for every mode, flower type and frame width: between the steps the
\* selection is empty but inside create_bw_alpha, where it holds the
\* perimeter circles added so far; every fill of a circle goes through a
\* selection built by one ADD (and one SUBTRACT in the Lines type), every
\* fill of the frame through one ADD and one SUBTRACT, and the fill of the
\* mask through the 14 ellipses of create_bw_alpha; with frame width 0 no
\* frame is selected or filled.
C24_SelectionEmptyAtStart ==
    plugin = "flower" =>
        /\ pc \notin { "alpha_perimeter", "alpha_center", "failed" } =>
              host.selection = << >>
        /\ pc \in { "alpha_perimeter", "alpha_center" } =>
              /\ Len(host.selection) = li
              /\ \A n \in 1..li : host.selection[n].name = "CHANNEL_OP_ADD"
        /\ \A s \in host.fill_shapes :
              /\ s[1] \in { "Circle", "Frame", MASK }
              /\ s[1] = "Circle" => s[2] = CircleShape
              /\ s[1] = "Frame" => (s[2] = Annulus /\ frame_width # 0)
              /\ s[1] = MASK => s[2] = MaskShape

\* a flower of lines with a frame is done: its circles were filled as
\* annuli, its frame as a ring and its mask through 14 ellipses
C24_Witness ==
    /\ plugin = "flower" /\ pc = "done"
    /\ flower_type = LINES /\ frame_width # 0
    /\ Len(circles) = 110
    /\ host.fill_shapes =
          { << "Circle", Annulus >>, << "Frame", Annulus >>,
            << MASK, MaskShape >> }
    /\ host.selection = << >>

\* ------------------------------------------------------------ the lattice
\* n / d rounded to the nearest integer
Round(n, d) == (n + (d \div 2)) \div d

\* The hexagonal lattice around the image centre: a point of it is a steps
\* of circle_radius upwards plus b steps at 60 degrees clockwise from up,
\* which is b * sin(60) * circle_radius to the right and (2a + b) / 2 *
\* circle_radius up.  LatticeB and LatticeS are the b and the 2a + b of the
\* lattice point nearest to a circle's centre.
LatticeB(c) == Round(c.x - Px(image_focus[1]), HexagonSin[2] * circle_radius)
LatticeS(c) == Round(2 * (Px(image_focus[2]) - c.y), Px(circle_radius))
Lattice(c) == << (LatticeS(c) - LatticeB(c)) \div 2, LatticeB(c) >>

\* the centre of circle c lies within 0.0001 * circle_radius pixels of a
\* point of the lattice
OnLattice(c) ==
    /\ (LatticeS(c) - LatticeB(c)) % 2 = 0
    /\ Abs((c.x - Px(image_focus[1]))
              - (LatticeB(c) * HexagonSin[2] * circle_radius))
          <= 100 * circle_radius
    /\ Abs((2 * (Px(image_focus[2]) - c.y))
              - (LatticeS(c) * Px(circle_radius)))
          <= 200 * circle_radius

\* the number of steps from the image centre to the lattice point v
HexNorm(v) ==
    LET m(p, q) == IF p > q THEN p ELSE q
    IN  m(m(Abs(v[1]), Abs(v[2])), Abs(v[1] + v[2]))

\* the lattice points within n steps of the image centre
LatticeDisc(n) == { v \in (-4..4) \X (-4..4) : HexNorm(v) <= n }

\* the circles of the pass being drawn
InPass(c) == c.pass = pass
PassCircles == SelectSeq(circles, InPass)

\* a pass has drawn its last circle
PassDrawn == plugin = "flower" /\ pc = "merge" /\ RingFunction = 6

\* the circles the centre circle and the six ring functions draw
RingCircles == << 1, 6, 6, 6, 12, 6, 18 >>

\* C25: one pass over the flower draws exactly 55 circles, 1 + 6 + 6 + 6 +
\* 12 + 6 + 18 by ring function; their centres lie on 55 different points
\* of the hexagonal lattice; the centre circle and rings 1 to 5 cover
\* exactly the 37 lattice points within 3 steps of the image centre, and
\* ring 6 adds 18 different points at 4 steps.
C25_FlowerOnLattice ==
    /\ Len(circles) <= 110
    /\ PassDrawn =>
          LET cs == PassCircles
              of(k) == { n \in 1..Len(cs) : cs[n].ring = k }
              inner == { Lattice(cs[n]) :
                            n \in { m \in 1..Len(cs) : cs[m].ring <= 5 } }
              outer == { Lattice(cs[n]) : n \in of(6) }
          IN  /\ Len(cs) = 55
              /\ \A k \in 0..6 : Cardinality(of(k)) = RingCircles[k + 1]
              /\ \A n \in 1..Len(cs) : OnLattice(cs[n])
              /\ Cardinality({ Lattice(cs[n]) : n \in 1..Len(cs) }) = 55
              /\ inner = LatticeDisc(3)
              /\ Cardinality(inner) = 37
              /\ Cardinality(outer) = 18
              /\ \A v \in outer : HexNorm(v) = 4

\* the black and white pass of a flower has drawn its last circle, the
\* one draw_6th_ring reaches from extra_ring[0]: three steps up and one at
\* 300 degrees
C25_Witness ==
    /\ PassDrawn
    /\ pass = "bw"
    /\ Len(PassCircles) = 55
    /\ Lattice(PassCircles[55]) = << 4, -1 >>
    /\ Lattice(PassCircles[1]) = << 0, 0 >>

====
